---- MODULE Spec2Model ----
(***************************************************************************)
(* Order lifecycle and inventory ledger of the order management API.       *)
(*                                                                         *)
(* The database tables (products, inventory, orders with their items,      *)
(* order status history) are the shared state.  Every request handler is   *)
(* a call slot that runs the handler's statements one database round trip  *)
(* at a time; statements issued through prisma.$transaction are buffered   *)
(* in the call's transaction and become visible to others at commit        *)
(* (PostgreSQL READ COMMITTED, the default of the Prisma client used       *)
(* here): an UPDATE takes the row's lock until the transaction ends, a     *)
(* plain SELECT takes none and sees the last committed row.                *)
(***************************************************************************)
EXTENDS Integers, Sequences, FiniteSets, Bags, TLC

\* ------------------------------------------------------------------ bounds
MaxOrders == 2          \* orders that createOrder may persist
MaxTransitions == 3     \* updateOrderStatus requests issued in one behaviour
MaxAdjust == 1          \* updateStock requests issued in one behaviour

Calls == {1, 2}         \* request handlers that can be in flight together
ProductIds == {1, 2}

\* ------------------------------------------------------------ enumerations
PENDING == "PENDING"
APPROVED == "APPROVED"
FULFILLED == "FULFILLED"
CANCELLED == "CANCELLED"
OrderStatus == {PENDING, APPROVED, FULFILLED, CANCELLED}
NULL == "null"

\* ------------------------------------------------------- UOM conversion
\* factor = num / den
conversionRules ==
  { [from |-> "GRAM",       to |-> "GRAM",       num |-> 1,       den |-> 1],
    [from |-> "KILOGRAM",   to |-> "GRAM",       num |-> 1000,    den |-> 1],
    [from |-> "TON",        to |-> "GRAM",       num |-> 1000000, den |-> 1],
    [from |-> "MILLILITER", to |-> "MILLILITER", num |-> 1,       den |-> 1],
    [from |-> "LITER",      to |-> "MILLILITER", num |-> 1000,    den |-> 1],
    [from |-> "METER",      to |-> "METER",      num |-> 1,       den |-> 1],
    [from |-> "CENTIMETER", to |-> "METER",      num |-> 1,       den |-> 100],
    [from |-> "KILOMETER",  to |-> "METER",      num |-> 1000,    den |-> 1],
    [from |-> "PIECE",      to |-> "PIECE",      num |-> 1,       den |-> 1],
    [from |-> "KILOGRAM",   to |-> "KILOGRAM",   num |-> 1,       den |-> 1],
    [from |-> "GRAM",       to |-> "KILOGRAM",   num |-> 1,       den |-> 1000],
    [from |-> "LITER",      to |-> "LITER",      num |-> 1,       den |-> 1],
    [from |-> "MILLILITER", to |-> "LITER",      num |-> 1,       den |-> 1000] }

isCompatible(requestedUom, baseUom) ==
  \E r \in conversionRules : r.from = requestedUom /\ r.to = baseUom

\* quantity * rule.factor; the quantities of this model are whole numbers of
\* the requested unit and the rules applied to them have den = 1
convertToBaseUom(quantity, requestedUom, baseUom) ==
  LET rule == CHOOSE r \in conversionRules :
                 r.from = requestedUom /\ r.to = baseUom
  IN  (quantity * rule.num) \div rule.den

\* ------------------------------------------------------ Number arithmetic
\* quantity, factor, price, lineTotal and totalAmount are JavaScript Numbers:
\* IEEE 754 binary64 values, every operation rounded to the nearest value
\* with 53 significant bits, ties to even.  A natural number of any size is
\* the sequence of its digits in base 2^15, least significant first,
\* without leading zeros; a Number (finite, not negative) is Zero or
\* m * 2^e with 2^52 <= m < 2^53.  A decimal literal or a Decimal column is
\* n / 10^k.
MantissaBits == 53
LimbBits == 15
Base == 2 ^ LimbBits
Zero == [m |-> <<>>, e |-> 0]
Dec(n, k) == [n |-> n, k |-> k]
DecMul(a, b) == [n |-> a.n * b.n, k |-> a.k + b.k]
DecAdd(a, b) ==
  LET k == IF a.k > b.k THEN a.k ELSE b.k
  IN  [n |-> a.n * 10 ^ (k - a.k) + b.n * 10 ^ (k - b.k), k |-> k]

RECURSIVE Limbs(_)
Limbs(n) == IF n = 0 THEN <<>> ELSE <<n % Base>> \o Limbs(n \div Base)

Trim(a) ==
  LET set == { i \in 1..Len(a) : a[i] # 0 }
  IN  IF set = {} THEN <<>>
      ELSE SubSeq(a, 1, CHOOSE i \in set : \A j \in set : j <= i)

Zeros(n) == [i \in 1..n |-> 0]

BitLength(a) ==
  IF a = <<>> THEN 0
  ELSE LimbBits * (Len(a) - 1)
         + (CHOOSE w \in 1..LimbBits : 2 ^ (w - 1) <= a[Len(a)] /\ a[Len(a)] < 2 ^ w)

RECURSIVE BigAdd(_, _, _)
BigAdd(a, b, carry) ==
  IF b = <<>> /\ carry = 0 THEN a
  ELSE IF a = <<>> /\ carry = 0 THEN b
  ELSE LET x == IF a = <<>> THEN 0 ELSE Head(a)
           y == IF b = <<>> THEN 0 ELSE Head(b)
           sum == x + y + carry
       IN  <<sum % Base>> \o BigAdd(IF a = <<>> THEN a ELSE Tail(a),
                                    IF b = <<>> THEN b ELSE Tail(b),
                                    sum \div Base)

\* a * k + carry for a digit k
RECURSIVE MulSmall(_, _, _)
MulSmall(a, k, carry) ==
  IF a = <<>> THEN Limbs(carry)
  ELSE LET v == Head(a) * k + carry
       IN  <<v % Base>> \o MulSmall(Tail(a), k, v \div Base)

RECURSIVE BigMul(_, _)
BigMul(a, b) ==
  IF a = <<>> THEN <<>>
  ELSE LET rest == BigMul(Tail(a), b)
       IN  Trim(BigAdd(MulSmall(b, Head(a), 0),
                       IF rest = <<>> THEN rest ELSE <<0>> \o rest, 0))

\* the digits i..1 of a divided by d <= Base, r being the remainder of the
\* higher digits
RECURSIVE DivSmall(_, _, _, _)
DivSmall(a, i, d, r) ==
  IF i = 0 THEN [q |-> <<>>, r |-> r]
  ELSE LET v == r * Base + a[i]
           rest == DivSmall(a, i - 1, d, v % d)
       IN  [q |-> Append(rest.q, v \div d), r |-> rest.r]

\* a divided by 10^k: the quotient, and whether a remainder was dropped
RECURSIVE DivPow10(_, _, _)
DivPow10(a, k, inexact) ==
  IF k = 0 THEN [q |-> a, inexact |-> inexact]
  ELSE LET step == IF k > 4 THEN 4 ELSE k
           dv == DivSmall(a, Len(a), 10 ^ step, 0)
       IN  DivPow10(Trim(dv.q), k - step, inexact \/ dv.r # 0)

ShiftLeft(a, s) ==
  IF a = <<>> THEN a
  ELSE LET digits == MulSmall(a, 2 ^ (s % LimbBits), 0)
       IN  IF s < LimbBits THEN digits ELSE Zeros(s \div LimbBits) \o digits

\* a divided by 2^s: the quotient, and whether a remainder was dropped
ShiftRight(a, s) ==
  LET whole == s \div LimbBits
      rest == SubSeq(a, whole + 1, Len(a))
      dv == DivSmall(rest, Len(rest), 2 ^ (s % LimbBits), 0)
  IN  [q |-> Trim(dv.q),
       inexact |-> dv.r # 0 \/ \E i \in 1..whole : a[i] # 0]

\* m * 2^e (plus a non-zero fraction of its last place when sticky) rounded
\* to the nearest Number, ties to even
Round(m, sticky, e) ==
  LET length == BitLength(m)
  IN  IF m = <<>> THEN Zero
      ELSE IF length <= MantissaBits
      THEN [m |-> ShiftLeft(m, MantissaBits - length),
            e |-> e - (MantissaBits - length)]
      ELSE LET guard == ShiftRight(m, length - MantissaBits - 1)
               kept == ShiftRight(guard.q, 1).q
               half == guard.q[1] % 2 = 1
               up == half /\ (sticky \/ guard.inexact \/ kept[1] % 2 = 1)
               rounded == IF up THEN BigAdd(kept, <<1>>, 0) ELSE kept
           IN  IF BitLength(rounded) > MantissaBits
               THEN [m |-> ShiftRight(rounded, 1).q,
                     e |-> e + length - MantissaBits + 1]
               ELSE [m |-> rounded, e |-> e + length - MantissaBits]

\* the Number a decimal literal or a Decimal's toNumber() denotes
Nearest(dec) ==
  LET scale == 6 * LimbBits
      dv == DivPow10(ShiftLeft(Limbs(dec.n), scale), dec.k, FALSE)
  IN  Round(dv.q, dv.inexact, 0 - scale)

\* x * y
Times(x, y) ==
  IF x.m = <<>> \/ y.m = <<>> THEN Zero
  ELSE Round(BigMul(x.m, y.m), FALSE, x.e + y.e)

\* x + y
Plus(x, y) ==
  IF x.m = <<>> THEN y
  ELSE IF y.m = <<>> THEN x
  ELSE LET e == IF x.e < y.e THEN x.e ELSE y.e
       IN  IF x.e - e > 4 * LimbBits THEN x
           ELSE IF y.e - e > 4 * LimbBits THEN y
           ELSE Round(BigAdd(ShiftLeft(x.m, x.e - e), ShiftLeft(y.m, y.e - e), 0),
                      FALSE, e)

\* ------------------------------------------------------------------- state
VARIABLES
  products,       \* product table: id -> row
  inventory,      \* inventory table (committed rows): productId -> row
  orders,         \* order table with its items (committed rows); id = index
  statusHistory,  \* order_status_history rows of each order, oldest first
  pc,             \* position of every call in its handler
  req,            \* arguments and locals of every call
  tx,             \* open transaction of every call: locks and pending writes
  issued,         \* requests issued so far, per kind
  approvals,      \* per order: committed PENDING->APPROVED transactions
  restores,       \* per order: committed APPROVED->CANCELLED transactions
  partialAbort,   \* per order: an approval rolled back after deducting an item
  trip,           \* per order: bookkeeping of the approve-then-cancel round trip
  ledgerLog,      \* per product: bag of the completed ledger operations
  events,         \* per order: the status-changed events broadcast so far
  lastError,      \* the error of the last request that failed, when recorded
  returned,       \* the value the last read-only request returned
  now,            \* Date.now(), in clock ticks
  circuits,       \* CircuitBreakerService.circuits: name -> metrics
  inFlight,       \* per call: the wrapped operation it awaits, if any
  breaker,        \* calls made, rejected and passed to the operation so far
  store,          \* RateLimiterService.store: identifier -> record
  limited,        \* the limiter's config, last answer and answers per window
  shutdownTasks,  \* GracefulShutdownService.shutdownTasks, in array order
  isShuttingDown, \* GracefulShutdownService.isShuttingDown
  shutdownRun     \* the shutdown loop: position, task awaited, tasks started

dbVars == <<products, inventory, orders, statusHistory>>
callVars == <<pc, req, tx, issued>>
ghostVars == <<approvals, restores, partialAbort, trip, ledgerLog>>
outVars == <<events, lastError, returned>>
svcVars == <<now, circuits, inFlight, breaker, store, limited, shutdownTasks,
             isShuttingDown, shutdownRun>>
vars == <<products, inventory, orders, statusHistory, pc, req, tx, issued,
          approvals, restores, partialAbort, trip, ledgerLog, events, lastError,
          returned, now, circuits, inFlight, breaker, store, limited,
          shutdownTasks, isShuttingDown, shutdownRun>>

OrderIds == 1..MaxOrders

NoTx == [orderLock |-> 0, invLocks |-> {}, delta |-> [p \in ProductIds |-> 0]]
NoReq == [kind |-> "none", orderId |-> 0, newStatus |-> PENDING,
          currentStatus |-> PENDING, i |-> 0, items |-> <<>>,
          totalAmount |-> 0, orderNumber |-> 0]
NoTrip == [phase |-> "none", before |-> [p \in ProductIds |-> 0],
           after |-> [p \in ProductIds |-> 0]]

\* the request bodies createOrder is called with
ItemLists ==
  { << [productId |-> 1, quantityRequested |-> 1, requestedUom |-> "KILOGRAM"] >>,
    << [productId |-> 2, quantityRequested |-> 1, requestedUom |-> "PIECE"] >>,
    << [productId |-> 1, quantityRequested |-> 1, requestedUom |-> "KILOGRAM"],
       [productId |-> 2, quantityRequested |-> 2, requestedUom |-> "PIECE"] >>,
    << [productId |-> 3, quantityRequested |-> 1, requestedUom |-> "PIECE"] >>,
    << [productId |-> 2, quantityRequested |-> 1, requestedUom |-> "PIECE"],
       [productId |-> 2, quantityRequested |-> 1, requestedUom |-> "PIECE"] >>,
    << >> }

InitialStock(p) == IF p = 1 THEN 1000 ELSE 2

\* the errors of failed requests are recorded in the behaviours that start
\* with NoError, and are not in those that start with NotRecorded
NotRecorded == [op |-> "off", error |-> "none", from |-> "", to |-> ""]
NoError == [op |-> "none", error |-> "none", from |-> "", to |-> ""]
NoReturn == [op |-> "none"]
\* the behaviours that record errors are explored for fewer requests
MaxErrOrders == 1
MaxErrTransitions == 3
\* the requests issued so far, with the numbers of orders and of transition
\* requests one behaviour is explored for
Budget(maxOrders, maxTransitions) ==
  [create |-> 0, transition |-> 0, adjust |-> 0, edit |-> 0,
   maxOrders |-> maxOrders, maxTransitions |-> maxTransitions]
OrderLimit == issued.maxOrders
TransitionLimit == issued.maxTransitions

Failed(op, error, from, to) ==
  IF lastError = NotRecorded THEN lastError
  ELSE [op |-> op, error |-> error, from |-> from, to |-> to]

\* the common services right after construction: no circuit and no rate
\* limit record yet, the default shutdown tasks registered (sorted by
\* registerShutdownTask), no signal received
EmptyMap == [k \in {} |-> NULL]
NoOperation == [name |-> NULL]
NoCalls == [calls |-> 0, rejected |-> 0, invoked |-> 0]
NoAnswer == [allowed |-> NULL]
NoLimits == [config |-> NULL, calls |-> 0, answer |-> NoAnswer,
             allowedInWindow |-> EmptyMap]
DefaultTasks ==
  << [name |-> "database-cleanup", priority |-> 100],
     [name |-> "pending-transactions", priority |-> 90],
     [name |-> "shutdown-metrics", priority |-> 10] >>
NoShutdown == [pc |-> "idle", i |-> 0, started |-> <<>>, signals |-> 0,
               completed |-> FALSE, outcomes |-> EmptyMap]

CircuitsIdle ==
  /\ circuits = EmptyMap
  /\ inFlight = [c \in Calls |-> NoOperation]
  /\ breaker = NoCalls

LimiterIdle ==
  /\ store = EmptyMap
  /\ limited = NoLimits

ShutdownIdle ==
  /\ shutdownTasks = DefaultTasks
  /\ isShuttingDown = FALSE
  /\ shutdownRun = NoShutdown

ServicesIdle ==
  /\ now = 0
  /\ CircuitsIdle
  /\ LimiterIdle
  /\ ShutdownIdle

\* no order yet and no request in flight
StartRequests ==
  /\ orders = <<>>
  /\ statusHistory = <<>>
  /\ pc = [c \in Calls |-> "idle"]
  /\ req = [c \in Calls |-> NoReq]
  /\ tx = [c \in Calls |-> NoTx]
  /\ approvals = [o \in OrderIds |-> 0]
  /\ restores = [o \in OrderIds |-> 0]
  /\ partialAbort = [o \in OrderIds |-> FALSE]
  /\ trip = [o \in OrderIds |-> NoTrip]
  /\ ledgerLog = [p \in ProductIds |-> EmptyBag]
  /\ events = [o \in OrderIds |-> <<>>]

StartIdle ==
  /\ StartRequests
  /\ ServicesIdle

StartProducts ==
  [p \in ProductIds |->
     IF p = 1
     THEN [supplierId |-> 10, baseUom |-> "GRAM", pricePerBaseUom |-> 2,
           isActive |-> TRUE]
     ELSE [supplierId |-> 11, baseUom |-> "PIECE", pricePerBaseUom |-> 5,
           isActive |-> TRUE]]

StartInventory ==
  [p \in ProductIds |->
     [exists |-> TRUE,
      quantityInBaseUom |-> InitialStock(p),
      reservedQuantity |-> 0]]

StartRest ==
  /\ products = StartProducts
  /\ StartIdle
  /\ returned = NoReturn

Start ==
  /\ inventory = StartInventory
  /\ StartRest

Init ==
  /\ Start
  /\ issued = Budget(MaxOrders, MaxTransitions)
  /\ lastError = NotRecorded


\* ------------------------------------------------------------ transactions
\* a row lock is free for a call when no other call's transaction holds it
OrderRowFree(c, o) == \A d \in Calls \ {c} : tx[d].orderLock # o
InvRowFree(c, p) == \A d \in Calls \ {c} : p \notin tx[d].invLocks

\* what a SELECT inside call c's transaction sees of product p's quantity:
\* the committed row plus the transaction's own uncommitted change
TxQuantity(c, p) == inventory[p].quantityInBaseUom + tx[c].delta[p]

\* COMMIT: the pending inventory changes reach the committed rows
ApplyDelta(inv, delta) ==
  [p \in ProductIds |->
     [inv[p] EXCEPT !.quantityInBaseUom = @ + delta[p]]]

\* the callback of $transaction threw: the transaction is rolled back and
\* none of its pending writes reaches the committed rows
RollbackLeaky(inv, delta) == ApplyDelta(inv, delta)
Rollback(inv, delta) == inv

\* ------------------------------------------------- AdminService (status)
validTransitionsRepeat ==
  [s \in OrderStatus |->
     CASE s = PENDING   -> {APPROVED, CANCELLED}
       [] s = APPROVED  -> {FULFILLED, CANCELLED}
       [] s = FULFILLED -> {FULFILLED}
       [] s = CANCELLED -> {CANCELLED}]
validTransitions ==
  [s \in OrderStatus |->
     CASE s = PENDING   -> {APPROVED, CANCELLED}
       [] s = APPROVED  -> {FULFILLED, CANCELLED}
       [] s = FULFILLED -> {}
       [] s = CANCELLED -> {}]

validateStatusTransitionLax(currentStatus, newStatus) == TRUE
validateStatusTransition(currentStatus, newStatus) ==
  newStatus \in validTransitions[currentStatus]

\* a request is served by the first free handler slot (slots are alike)
FreeSlot(c) == pc[c] = "idle" /\ \A d \in Calls : d < c => pc[d] # "idle"

\* the ledger operations of a transaction on order items, as log entries
LogOp(kind, qty, ok) == SetToBag({[kind |-> kind, qty |-> qty, ok |-> ok]})
ItemOps(items, p, kind) ==
  LET ks == {k \in 1..Len(items) : items[k].productId = p}
  IN  IF ks = {} THEN EmptyBag
      ELSE LogOp(kind, items[CHOOSE k \in ks : TRUE].quantityInBaseUom, TRUE)

Finish(c) ==
  /\ pc' = [pc EXCEPT ![c] = "idle"]
  /\ req' = [req EXCEPT ![c] = NoReq]
  /\ tx' = [tx EXCEPT ![c] = NoTx]

\* updateOrderStatus, up to the call of $transaction: the order is read with
\* findUnique outside any transaction and the transition is validated
\* against the status that was read
updateOrderStatus(c, orderId, newStatus) ==
  /\ UNCHANGED svcVars
  /\ FreeSlot(c)
  /\ issued.transition < TransitionLimit
  /\ issued' = [issued EXCEPT !.transition = @ + 1]
  /\ IF orderId \notin DOMAIN orders
     THEN \* NotFoundException
          /\ lastError' = Failed("transition", "OrderNotFound", "", "")
          /\ UNCHANGED <<pc, req, tx>>
     ELSE IF ~validateStatusTransition(orders[orderId].status, newStatus)
     THEN \* BadRequestException: invalid status transition
          /\ lastError' = Failed("transition", "InvalidTransition",
                                 orders[orderId].status, newStatus)
          /\ UNCHANGED <<pc, req, tx>>
     ELSE /\ pc' = [pc EXCEPT ![c] = "txOrderUpdate"]
          /\ req' = [req EXCEPT ![c] =
                       [NoReq EXCEPT !.kind = "transition",
                                     !.orderId = orderId,
                                     !.newStatus = newStatus,
                                     !.currentStatus = orders[orderId].status,
                                     !.items = orders[orderId].items,
                                     !.i = 1]]
          /\ UNCHANGED <<tx, lastError>>
  /\ UNCHANGED <<dbVars, ghostVars, events, returned>>

\* the stock operation the transaction runs for a transition
StockBranchAnyCancel(currentStatus, newStatus) ==
  IF currentStatus = PENDING /\ newStatus = APPROVED THEN "deductFind"
  ELSE IF newStatus = CANCELLED THEN "restore"
  ELSE "commit"
StockBranch(currentStatus, newStatus) ==
  IF currentStatus = PENDING /\ newStatus = APPROVED THEN "deductFind"
  ELSE IF currentStatus = APPROVED /\ newStatus = CANCELLED THEN "restore"
  ELSE "commit"

\* tx.order.update and tx.orderStatusHistory.create: the UPDATE waits for
\* the order row's lock; both writes stay pending until COMMIT (the status
\* written is req.newStatus, the history row is currentStatus -> newStatus)
TxOrderUpdate(c) ==
  /\ UNCHANGED svcVars
  /\ pc[c] = "txOrderUpdate"
  /\ OrderRowFree(c, req[c].orderId)
  /\ tx' = [tx EXCEPT ![c].orderLock = req[c].orderId]
  /\ pc' = [pc EXCEPT ![c] = StockBranch(req[c].currentStatus, req[c].newStatus)]
  /\ UNCHANGED <<dbVars, req, issued, ghostVars, outVars>>

\* deductStockForOrder, one item: tx.inventory.findUnique and the check of
\* the available stock; a throw rolls the whole transaction back
DeductFind(c) ==
  /\ UNCHANGED svcVars
  /\ pc[c] = "deductFind"
  /\ LET item == req[c].items[req[c].i]
         p == item.productId
         availableStock == TxQuantity(c, p) - inventory[p].reservedQuantity
         requiredQuantity == item.quantityInBaseUom
     IN  IF ~inventory[p].exists \/ availableStock < requiredQuantity
         THEN \* BadRequestException: no inventory / insufficient stock
              /\ inventory' = Rollback(inventory, tx[c].delta)
              /\ partialAbort' = [partialAbort EXCEPT ![req[c].orderId] =
                                    @ \/ req[c].i > 1]
              /\ ledgerLog' = [ledgerLog EXCEPT ![p] =
                    IF inventory[p].exists
                    THEN @ (+) LogOp("deduct", requiredQuantity, FALSE)
                    ELSE @]
              /\ lastError' = Failed("transition", "InsufficientStock", "", "")
              /\ Finish(c)
              /\ UNCHANGED <<products, orders, statusHistory, issued,
                             approvals, restores, trip, events, returned>>
         ELSE /\ pc' = [pc EXCEPT ![c] = "deductUpdate"]
              /\ UNCHANGED <<dbVars, req, tx, issued, ghostVars, outVars>>

\* deductStockForOrder, one item: tx.inventory.update with decrement
deductQuantity(item) == item.quantityInBaseUom

DeductUpdate(c) ==
  /\ UNCHANGED svcVars
  /\ pc[c] = "deductUpdate"
  /\ LET item == req[c].items[req[c].i]
         p == item.productId
     IN  /\ InvRowFree(c, p)
         /\ tx' = [tx EXCEPT ![c].invLocks = @ \cup {p},
                             ![c].delta[p] = @ - deductQuantity(item)]
         /\ req' = [req EXCEPT ![c].i = @ + 1]
         /\ pc' = [pc EXCEPT ![c] =
               IF req[c].i = Len(req[c].items) THEN "commit" ELSE "deductFind"]
  /\ UNCHANGED <<dbVars, issued, ghostVars, outVars>>

\* restoreStockForOrder, one item: tx.inventory.update with increment
restoreQuantityRequested(item) == item.quantityRequested
restoreQuantity(item) == item.quantityInBaseUom

RestoreUpdate(c) ==
  /\ UNCHANGED svcVars
  /\ pc[c] = "restore"
  /\ LET item == req[c].items[req[c].i]
         p == item.productId
     IN  IF ~inventory[p].exists
         THEN \* the record to update does not exist: the update throws
              /\ inventory' = Rollback(inventory, tx[c].delta)
              /\ lastError' = Failed("transition", "RecordNotFound", "", "")
              /\ Finish(c)
              /\ UNCHANGED <<products, orders, statusHistory, issued, ghostVars,
                             events, returned>>
         ELSE /\ InvRowFree(c, p)
              /\ tx' = [tx EXCEPT ![c].invLocks = @ \cup {p},
                                  ![c].delta[p] = @ + restoreQuantity(item)]
              /\ req' = [req EXCEPT ![c].i = @ + 1]
              /\ pc' = [pc EXCEPT ![c] =
                    IF req[c].i = Len(req[c].items) THEN "commit" ELSE "restore"]
              /\ UNCHANGED <<dbVars, issued, ghostVars, outVars>>

\* products whose inventory row a transaction changed
Touched(delta) == {p \in ProductIds : delta[p] # 0}
ItemProducts(o) == {orders[o].items[k].productId : k \in 1..Len(orders[o].items)}

\* bookkeeping of the approve-then-cancel round trip of every order, at the
\* commit of order o's transaction (isApprove / isCancel say what it did)
TripAfterCommit(o, isApprove, isCancel, delta, invBefore, invAfter) ==
  [x \in OrderIds |->
     IF x = o /\ isApprove /\ trip[x].phase = "none"
     THEN [phase |-> "open",
           before |-> [p \in ProductIds |-> invBefore[p].quantityInBaseUom],
           after |-> trip[x].after]
     ELSE IF x = o /\ isCancel /\ trip[x].phase = "open"
     THEN [phase |-> "closed",
           before |-> trip[x].before,
           after |-> [p \in ProductIds |-> invAfter[p].quantityInBaseUom]]
     ELSE IF /\ trip[x].phase = "open"
             /\ x \in DOMAIN orders
             /\ Touched(delta) \cap ItemProducts(x) # {}
     THEN [trip[x] EXCEPT !.phase = "dirty"]
     ELSE trip[x]]

\* the rows tx.orderStatusHistory.create adds for one transition
historyRowsOnChange(currentStatus, newStatus) ==
  IF newStatus = CANCELLED THEN <<>>
  ELSE << [fromStatus |-> currentStatus, toStatus |-> newStatus] >>
historyRows(currentStatus, newStatus) ==
  << [fromStatus |-> currentStatus, toStatus |-> newStatus] >>

\* the suppliers the broadcast names: the distinct owners of the items'
\* products
supplierIds(items) ==
  { products[items[k].productId].supplierId : k \in 1..Len(items) }

\* the callback of $transaction returned: COMMIT.  The rest of the handler
\* (broadcastOrderStatusUpdate, the final read of the order) changes none
\* of the tables; the broadcast carries the status the handler read before
\* the transaction as oldStatus.
Commit(c) ==
  /\ UNCHANGED svcVars
  /\ pc[c] = "commit"
  /\ LET o == req[c].orderId
         isApprove == req[c].currentStatus = PENDING /\ req[c].newStatus = APPROVED
         isCancel == req[c].currentStatus = APPROVED /\ req[c].newStatus = CANCELLED
         invAfter == ApplyDelta(inventory, tx[c].delta)
     IN  /\ orders' = [orders EXCEPT ![o].status = req[c].newStatus]
         /\ statusHistory' = [statusHistory EXCEPT ![o] =
               @ \o historyRows(req[c].currentStatus, req[c].newStatus)]
         /\ events' = [events EXCEPT ![o] =
               Append(@, [oldStatus |-> req[c].currentStatus,
                          newStatus |-> req[c].newStatus,
                          supplierIds |-> supplierIds(req[c].items)])]
         /\ inventory' = invAfter
         /\ approvals' = [approvals EXCEPT ![o] = IF isApprove THEN @ + 1 ELSE @]
         /\ restores' = [restores EXCEPT ![o] = IF isCancel THEN @ + 1 ELSE @]
         /\ trip' = TripAfterCommit(o, isApprove, isCancel, tx[c].delta,
                                    inventory, invAfter)
         /\ ledgerLog' = [p \in ProductIds |->
               IF isApprove THEN ledgerLog[p] (+) ItemOps(req[c].items, p, "deduct")
               ELSE IF isCancel
               THEN ledgerLog[p] (+) ItemOps(req[c].items, p, "restore")
               ELSE ledgerLog[p]]
  /\ Finish(c)
  /\ UNCHANGED <<products, issued, partialAbort, lastError, returned>>


\* ------------------------------------------------- OrdersService.create
RECURSIVE SumLineTotals(_)
SumLineTotals(items) ==
  IF items = <<>> THEN 0
  ELSE Head(items).lineTotal + SumLineTotals(Tail(items))

\* the rows of prisma.product.findMany({ id in productIds, isActive })
FoundProductsInactive(items) ==
  {p \in ProductIds : \E k \in 1..Len(items) : items[k].productId = p}
FoundProducts(items) ==
  {p \in ProductIds : /\ \E k \in 1..Len(items) : items[k].productId = p
                      /\ products[p].isActive}

\* the order item createOrder computes from one requested item
OrderItem(item) ==
  LET product == products[item.productId]
      quantityInBaseUom ==
        convertToBaseUom(item.quantityRequested, item.requestedUom, product.baseUom)
  IN  [productId |-> item.productId,
       quantityRequested |-> item.quantityRequested,
       requestedUom |-> item.requestedUom,
       quantityInBaseUom |-> quantityInBaseUom,
       unitPriceInBaseUom |-> product.pricePerBaseUom,
       lineTotal |-> quantityInBaseUom * product.pricePerBaseUom]

\* the soft stock check at creation, on the inventory read with the products
SoftCheckSkipped(item) == TRUE
SoftCheckOk(item) ==
  LET inv == inventory[item.productId]
      quantityInStock == IF inv.exists THEN inv.quantityInBaseUom ELSE 0
      reservedQuantity == IF inv.exists THEN inv.reservedQuantity ELSE 0
      availableStock == quantityInStock - reservedQuantity
  IN  ~(availableStock < OrderItem(item).quantityInBaseUom)

CreatesInFlight == Cardinality({c \in Calls : req[c].kind = "create"})

\* the exception create throws for a request body, "none" when it throws
\* none: the product count is compared first, then every item in turn is
\* checked for its unit and then for its stock
RECURSIVE ItemError(_, _)
ItemError(items, k) ==
  IF k > Len(items) THEN "none"
  ELSE IF ~isCompatible(items[k].requestedUom,
                        products[items[k].productId].baseUom)
  THEN "UnitMismatch"
  ELSE IF ~SoftCheckOk(items[k]) THEN "InsufficientStock"
  ELSE ItemError(items, k + 1)

CreateError(items) ==
  IF Len(items) < 1 THEN "ValidationFailed"
  ELSE IF Cardinality(FoundProducts(items)) # Len(items)
  THEN "ProductNotFoundOrInactive"
  ELSE ItemError(items, 1)

\* the inventory rows after the creating transaction: it issues no
\* statement on the inventory table
CreateTxReserves(inv, items) ==
  [p \in ProductIds |->
     [inv[p] EXCEPT !.reservedQuantity =
        @ + (IF \E k \in 1..Len(items) : items[k].productId = p THEN 1 ELSE 0)]]
CreateTxInventory(inv, items) == inv

\* the history rows the creating transaction inserts
initialHistoryNone == <<>>
initialHistory == << [fromStatus |-> NULL, toStatus |-> PENDING] >>

\* create, up to prisma.order.count: products and inventory are read once,
\* every item is validated, converted, checked against the stock and priced
createOrder(c, items) ==
  /\ UNCHANGED svcVars
  /\ FreeSlot(c)
  /\ IF CreateError(items) # "none"
     THEN \* BadRequestException
          /\ lastError' = Failed("create", CreateError(items), "", "")
          /\ UNCHANGED <<pc, req>>
     ELSE LET orderItems == [k \in 1..Len(items) |-> OrderItem(items[k])]
          IN  /\ Len(orders) + CreatesInFlight < OrderLimit
              /\ pc' = [pc EXCEPT ![c] = "count"]
              /\ req' = [req EXCEPT ![c] =
                           [NoReq EXCEPT !.kind = "create",
                                         !.items = orderItems,
                                         !.totalAmount = SumLineTotals(orderItems)]]
              /\ UNCHANGED lastError
  /\ UNCHANGED <<dbVars, tx, issued, ghostVars, events, returned>>

\* prisma.order.count(): every stored order is counted
orderCountPending(ords) ==
  Cardinality({ o \in DOMAIN ords : ords[o].status = PENDING })
orderCount(ords) == Len(ords)

\* prisma.order.count() and the order number formatted from it
CreateCount(c) ==
  /\ UNCHANGED svcVars
  /\ pc[c] = "count"
  /\ req' = [req EXCEPT ![c].orderNumber = orderCount(orders) + 1]
  /\ pc' = [pc EXCEPT ![c] = "createTx"]
  /\ UNCHANGED <<dbVars, tx, issued, ghostVars, outVars>>

\* the creating transaction: order, items and the initial history row are
\* inserted and committed together; the order number is a unique column
CreateTx(c) ==
  /\ UNCHANGED svcVars
  /\ pc[c] = "createTx"
  /\ IF \E o \in DOMAIN orders : orders[o].orderNumber = req[c].orderNumber
     THEN \* unique constraint violation: the transaction is rolled back
          /\ lastError' = Failed("create", "DuplicateOrderNumber", "", "")
          /\ UNCHANGED <<orders, statusHistory, inventory>>
     ELSE /\ orders' = Append(orders,
                [status |-> PENDING,
                 orderNumber |-> req[c].orderNumber,
                 totalAmount |-> req[c].totalAmount,
                 items |-> req[c].items])
          /\ statusHistory' = Append(statusHistory, initialHistory)
          /\ inventory' = CreateTxInventory(inventory, req[c].items)
          /\ UNCHANGED lastError
  /\ Finish(c)
  /\ UNCHANGED <<products, issued, ghostVars, events, returned>>

\* ------------------------------------------- ProductsService.updateStock
Actors == { [role |-> "ADMIN", id |-> 1],
            [role |-> "SUPPLIER", id |-> 10],
            [role |-> "SUPPLIER", id |-> 11] }
StockDtos == { [quantity |-> q, uom |-> u] : q \in {-1, 1}, u \in {"KILOGRAM", "PIECE"} }

\* the ownership check of updateStock
NotOwnerAllowed(actor, product) == FALSE
NotOwner(actor, product) ==
  actor.role = "SUPPLIER" /\ product.supplierId # actor.id

\* the exception updateStock throws before it writes, if any
StockError(id, dto, actor) ==
  IF id \notin ProductIds THEN "NotFound"
  ELSE IF NotOwner(actor, products[id]) THEN "Forbidden"
  ELSE IF ~isCompatible(dto.uom, products[id].baseUom) THEN "UnitMismatch"
  ELSE "none"

\* updateStock, up to prisma.inventory.update: findOne, the ownership check,
\* the unit check and the conversion to the base unit
updateStock(c, id, dto, actor) ==
  /\ UNCHANGED svcVars
  /\ FreeSlot(c)
  /\ issued.adjust < MaxAdjust
  /\ issued' = [issued EXCEPT !.adjust = @ + 1]
  /\ IF StockError(id, dto, actor) # "none"
     THEN \* NotFoundException / ForbiddenException / ConflictException
          /\ lastError' = Failed("adjust", StockError(id, dto, actor), "", "")
          /\ UNCHANGED <<pc, req>>
     ELSE /\ pc' = [pc EXCEPT ![c] = "stockUpdate"]
          /\ req' = [req EXCEPT ![c] =
                [NoReq EXCEPT !.kind = "adjust",
                              !.orderId = id,
                              !.totalAmount =
                                 convertToBaseUom(dto.quantity, dto.uom,
                                                  products[id].baseUom)]]
          /\ UNCHANGED lastError
  /\ UNCHANGED <<dbVars, tx, ghostVars, events, returned>>

\* prisma.inventory.update with increment, a statement of its own (it waits
\* for the row's lock and commits at once), and the check for negative
\* stock that follows it: the ConflictException is thrown after the write.
\* Without an inventory row the update finds no record and throws.
StockUpdate(c) ==
  /\ UNCHANGED svcVars
  /\ pc[c] = "stockUpdate"
  /\ LET p == req[c].orderId
         quantityInBaseUom == req[c].totalAmount
         updated == inventory[p].quantityInBaseUom + quantityInBaseUom
     IN  IF ~inventory[p].exists
         THEN /\ lastError' = Failed("adjust", "RecordNotFound", "", "")
              /\ UNCHANGED <<inventory, ledgerLog, trip>>
         ELSE /\ InvRowFree(c, p)
              /\ inventory' = [inventory EXCEPT ![p].quantityInBaseUom = updated]
              /\ ledgerLog' = [ledgerLog EXCEPT ![p] =
                    @ (+) LogOp("adjust", quantityInBaseUom, ~(updated < 0))]
              /\ trip' = [x \in OrderIds |->
                    IF /\ trip[x].phase = "open"
                       /\ x \in DOMAIN orders
                       /\ p \in ItemProducts(x)
                    THEN [trip[x] EXCEPT !.phase = "dirty"]
                    ELSE trip[x]]
              /\ lastError' = IF updated < 0
                              THEN Failed("adjust", "NegativeStock", "", "")
                              ELSE lastError
  /\ Finish(c)
  /\ UNCHANGED <<products, orders, statusHistory, issued, approvals, restores,
                 partialAbort, events, returned>>

\* ------------------------------------------------------------ specification
OrderRequests ==
  \E c \in Calls :
    \/ \E items \in ItemLists : createOrder(c, items)
    \/ CreateCount(c)
    \/ CreateTx(c)

TransitionRequests ==
  \E c \in Calls :
    \/ \E o \in OrderIds, s \in OrderStatus : updateOrderStatus(c, o, s)
    \/ TxOrderUpdate(c)
    \/ DeductFind(c)
    \/ DeductUpdate(c)
    \/ RestoreUpdate(c)
    \/ Commit(c)

StockRequests ==
  \E c \in Calls :
    \/ \E id \in ProductIds \cup {3}, dto \in StockDtos, actor \in Actors :
         updateStock(c, id, dto, actor)
    \/ StockUpdate(c)

\* ---------------------------------- ProductsService.checkStockAvailability
RequiredQuantities == {2, 3, 1000}

\* availableQuantity >= requiredQuantityInBase
SufficientStrictly(availableQuantity, requiredQuantityInBase) ==
  availableQuantity > requiredQuantityInBase
Sufficient(availableQuantity, requiredQuantityInBase) ==
  availableQuantity >= requiredQuantityInBase

\* the object checkStockAvailability returns for the inventory rows inv
StockAvailability(inv, productId, requiredQuantityInBase) ==
  IF productId \notin ProductIds \/ ~inv[productId].exists
  THEN [available |-> FALSE, availableQuantity |-> 0]
  ELSE LET availableQuantity ==
             inv[productId].quantityInBaseUom - inv[productId].reservedQuantity
       IN  [available |-> Sufficient(availableQuantity, requiredQuantityInBase),
            availableQuantity |-> availableQuantity,
            totalStock |-> inv[productId].quantityInBaseUom,
            reservedQuantity |-> inv[productId].reservedQuantity]

\* checkStockAvailability: one inventory.findUnique, outside any transaction
checkStockAvailability(productId, requiredQuantityInBase) ==
  /\ UNCHANGED svcVars
  /\ returned' = [op |-> "checkStockAvailability",
                  productId |-> productId,
                  requiredQuantityInBase |-> requiredQuantityInBase,
                  result |-> StockAvailability(inventory, productId,
                                               requiredQuantityInBase)]
  /\ UNCHANGED <<dbVars, callVars, ghostVars, events, lastError>>

CheckRequests ==
  \E productId \in ProductIds \cup {3}, q \in RequiredQuantities :
     checkStockAvailability(productId, q)

MaxEdits == 1
\* remove: findOne, the ownership check, then the soft delete.  The update
\* writes a constant and no request changes a product's supplier, so the two
\* round trips are taken as one step.
remove(id, actor) ==
  /\ UNCHANGED svcVars
  /\ issued.edit < MaxEdits
  /\ id \in ProductIds
  /\ ~(actor.role = "SUPPLIER" /\ products[id].supplierId # actor.id)
  /\ issued' = [issued EXCEPT !.edit = @ + 1]
  /\ products' = [products EXCEPT ![id].isActive = FALSE]
  /\ UNCHANGED <<inventory, orders, statusHistory, pc, req, tx, ghostVars, outVars>>

RemoveRequests ==
  \E id \in ProductIds \cup {3}, actor \in Actors : remove(id, actor)

UpdateDtos == { [pricePerBaseUom |-> 3] }

\* the orders after product.update: the statement writes the product row only
OrdersRepriced(ords, id, dto) ==
  [o \in DOMAIN ords |->
     [ords[o] EXCEPT !.items =
        [k \in DOMAIN @ |->
           IF @[k].productId = id /\ "pricePerBaseUom" \in DOMAIN dto
           THEN [@[k] EXCEPT !.unitPriceInBaseUom = dto.pricePerBaseUom]
           ELSE @[k]]]]
OrdersAfterUpdate(ords, id, dto) == ords

\* update: findOne, the ownership check, then product.update with the
\* fields of the body (taken as one step, as remove is)
update(id, dto, actor) ==
  /\ UNCHANGED svcVars
  /\ issued.edit < MaxEdits
  /\ id \in ProductIds
  /\ ~(actor.role = "SUPPLIER" /\ products[id].supplierId # actor.id)
  /\ issued' = [issued EXCEPT !.edit = @ + 1]
  /\ products' = [products EXCEPT ![id] =
        [f \in DOMAIN @ |-> IF f \in DOMAIN dto THEN dto[f] ELSE @[f]]]
  /\ orders' = OrdersAfterUpdate(orders, id, dto)
  /\ UNCHANGED <<inventory, statusHistory, pc, req, tx, ghostVars, outVars>>

UpdateRequests ==
  \E id \in ProductIds \cup {3}, dto \in UpdateDtos, actor \in Actors :
     update(id, dto, actor)

\* orders and their status transitions
Next == OrderRequests \/ TransitionRequests

Spec == Init /\ [][Next]_vars

\* the same with the suppliers' stock adjustments
NextStock == Next \/ StockRequests

SpecStock == Init /\ [][NextStock]_vars

\* orders and transitions with the error of every failed request recorded;
\* product 2 may be in the state ProductsService.create leaves between its
\* product.create and its inventory.create, without an inventory row
InitErr ==
  /\ \E created \in BOOLEAN :
       inventory = [p \in ProductIds |->
         IF p = 2 /\ ~created
         THEN [exists |-> FALSE, quantityInBaseUom |-> 0, reservedQuantity |-> 0]
         ELSE [exists |-> TRUE, quantityInBaseUom |-> InitialStock(p),
               reservedQuantity |-> 0]]
  /\ StartRest
  /\ issued = Budget(MaxErrOrders, MaxErrTransitions)
  /\ lastError = NoError

SpecErr == InitErr /\ [][Next]_vars

\* orders and transitions with the edits of the products
MaxEditOrders == 1
MaxEditTransitions == 2
InitEdit ==
  /\ Start
  /\ issued = Budget(MaxEditOrders, MaxEditTransitions)
  /\ lastError = NotRecorded

NextEdit == Next \/ RemoveRequests \/ UpdateRequests

SpecEdit == InitEdit /\ [][NextEdit]_vars

\* the stock adjustments and the availability reads, errors recorded
NextInventory == StockRequests \/ CheckRequests

SpecInventory == InitErr /\ [][NextInventory]_vars

\* ------------------------------------- UomConversionService on Numbers
RequestedUoms == { r.from : r \in conversionRules }
BaseUoms == { r.to : r \in conversionRules }
Units == RequestedUoms \cup BaseUoms

\* the factor of a rule as the decimal written in the table, and as Number
factorDec(rule) == Dec(rule.num, CHOOSE k \in 0..6 : 10 ^ k = rule.den)
factor(rule) == Nearest(factorDec(rule))

\* conversionRules.find(r => r.from === requestedUom && r.to === baseUom)
findRuleByFrom(requestedUom, baseUom) ==
  { r \in conversionRules : r.from = requestedUom }
findRule(requestedUom, baseUom) ==
  { r \in conversionRules : r.from = requestedUom /\ r.to = baseUom }

\* convertToBaseUom on Numbers: quantity * rule.factor, or the Error thrown
NoRule == [error |-> "No conversion rule found"]
convertToBaseUomNumber(quantity, requestedUom, baseUom) ==
  LET rules == findRule(requestedUom, baseUom)
  IN  IF rules = {} THEN NoRule
      ELSE Times(quantity, factor(CHOOSE r \in rules : TRUE))

\* the quantities the conversions are called with: 0, 2, 0.5, 16.1, 9 and
\* 0.002001
UomQuantities ==
  { Dec(0, 0), Dec(2, 0), Dec(5, 1), Dec(161, 1), Dec(9, 0), Dec(2001, 6) }

InitUom ==
  /\ products = StartProducts
  /\ inventory = StartInventory
  /\ StartIdle
  /\ issued = Budget(0, 0)
  /\ lastError = NoError
  /\ \E quantity \in UomQuantities, requestedUom \in Units, baseUom \in Units :
       returned = [op |-> "uom", quantity |-> quantity,
                   requestedUom |-> requestedUom, baseUom |-> baseUom]

ConvertRequest ==
  /\ UNCHANGED svcVars
  /\ returned.op = "uom"
  /\ returned' = [returned EXCEPT !.op = "convertToBaseUom"] @@
                 [result |-> convertToBaseUomNumber(Nearest(returned.quantity),
                                returned.requestedUom, returned.baseUom)]
  /\ UNCHANGED <<dbVars, callVars, ghostVars, events, lastError>>

CompatibleRequest ==
  /\ UNCHANGED svcVars
  /\ returned.op = "uom"
  /\ returned' = [returned EXCEPT !.op = "isCompatible"] @@
                 [result |-> isCompatible(returned.requestedUom, returned.baseUom)]
  /\ UNCHANGED <<dbVars, callVars, ghostVars, events, lastError>>

NextUom == ConvertRequest \/ CompatibleRequest

SpecUom == InitUom /\ [][NextUom]_vars

\* ------------------------------------ OrdersService.create on Numbers
\* products priced 0.01 per GRAM and 0.1 per PIECE
PricedProducts ==
  [p \in ProductIds |->
     IF p = 1
     THEN [supplierId |-> 10, baseUom |-> "GRAM", pricePerBaseUom |-> Dec(1, 2),
           isActive |-> TRUE]
     ELSE [supplierId |-> 11, baseUom |-> "PIECE", pricePerBaseUom |-> Dec(1, 1),
           isActive |-> TRUE]]

ItemChoices ==
  { [productId |-> 1, quantityRequested |-> q, requestedUom |-> u] :
      q \in { Dec(2, 0), Dec(161, 1), Dec(20, 0) }, u \in { "KILOGRAM", "GRAM" } }
  \cup
  { [productId |-> 2, quantityRequested |-> q, requestedUom |-> "PIECE"] :
      q \in { Dec(1, 0), Dec(2, 0), Dec(3, 0), Dec(5, 0), Dec(25, 1) } }

\* the bodies of the create requests: one item, or two of different products
PricedItemLists ==
  { <<a>> : a \in ItemChoices }
  \cup { ab \in ItemChoices \X ItemChoices : ab[1].productId # ab[2].productId }

\* the order item create computes from one requested item
PricedItem(item) ==
  LET product == products[item.productId]
      quantityInBaseUom ==
        convertToBaseUomNumber(Nearest(item.quantityRequested),
                               item.requestedUom, product.baseUom)
      unitPriceInBaseUom == Nearest(product.pricePerBaseUom)
  IN  [productId |-> item.productId,
       quantityInBaseUom |-> quantityInBaseUom,
       unitPriceInBaseUom |-> unitPriceInBaseUom,
       lineTotal |-> Times(quantityInBaseUom, unitPriceInBaseUom)]

\* totalAmount += lineTotal, item after item
RECURSIVE TotalAmount(_, _)
TotalAmount(orderItems, k) ==
  IF k = 0 THEN Zero
  ELSE Plus(TotalAmount(orderItems, k - 1), orderItems[k].lineTotal)

InitPricing ==
  /\ products = PricedProducts
  /\ inventory = StartInventory
  /\ StartIdle
  /\ issued = Budget(0, 0)
  /\ lastError = NoError
  /\ \E items \in PricedItemLists : returned = [op |-> "order", items |-> items]

PriceRequest ==
  /\ UNCHANGED svcVars
  /\ returned.op = "order"
  /\ LET orderItems == [k \in 1..Len(returned.items) |->
                          PricedItem(returned.items[k])]
     IN  returned' = [op |-> "create", items |-> returned.items,
                      orderItems |-> orderItems,
                      totalAmount |-> TotalAmount(orderItems, Len(orderItems))]
  /\ UNCHANGED <<dbVars, callVars, ghostVars, events, lastError>>

NextPricing == PriceRequest

SpecPricing == InitPricing /\ [][NextPricing]_vars

\* ------------------------------------------------ ProductsService.create
MaxNewProducts == 2
CreateProductDtos ==
  { [baseUom |-> "GRAM", pricePerBaseUom |-> 2, sku |-> sku] :
      sku \in { NULL, "SKU-A" } }

\* the rows with the given sku (sku is a unique, optional column)
WithSku(sku) == { p \in DOMAIN products : products[p].sku = sku }

\* create, up to prisma.product.create: the SKU is looked up first
createProduct(c, supplierId, dto) ==
  /\ UNCHANGED svcVars
  /\ FreeSlot(c)
  /\ IF dto.sku # NULL /\ WithSku(dto.sku) # {}
     THEN \* ConflictException
          /\ lastError' = Failed("createProduct", "SkuExists", "", "")
          /\ UNCHANGED <<pc, req>>
     ELSE /\ Cardinality(DOMAIN products)
               + Cardinality({ d \in Calls : pc[d] = "productCreate" })
             < Cardinality(ProductIds) + MaxNewProducts
          /\ pc' = [pc EXCEPT ![c] = "productCreate"]
          /\ req' = [req EXCEPT ![c] =
                [kind |-> "product", supplierId |-> supplierId, dto |-> dto,
                 productId |-> 0]]
          /\ UNCHANGED lastError
  /\ UNCHANGED <<dbVars, tx, issued, ghostVars, events, returned>>

\* prisma.product.create, a statement of its own: the row gets the next id;
\* a row with the same SKU inserted meanwhile violates the unique column
ProductCreate(c) ==
  /\ UNCHANGED svcVars
  /\ pc[c] = "productCreate"
  /\ LET dto == req[c].dto
         id == Cardinality(DOMAIN products) + 1
     IN  IF dto.sku # NULL /\ WithSku(dto.sku) # {}
         THEN /\ lastError' = Failed("createProduct", "SkuExists", "", "")
              /\ Finish(c)
              /\ UNCHANGED products
         ELSE /\ products' = products @@
                   (id :> [supplierId |-> req[c].supplierId,
                           baseUom |-> dto.baseUom,
                           pricePerBaseUom |-> dto.pricePerBaseUom,
                           isActive |-> TRUE, sku |-> dto.sku])
              /\ pc' = [pc EXCEPT ![c] = "inventoryCreate"]
              /\ req' = [req EXCEPT ![c].productId = id]
              /\ UNCHANGED <<tx, lastError>>
  /\ UNCHANGED <<inventory, orders, statusHistory, issued, ghostVars, events,
                 returned>>

\* prisma.inventory.create, the next statement, with zero stock
InventoryCreate(c) ==
  /\ UNCHANGED svcVars
  /\ pc[c] = "inventoryCreate"
  /\ inventory' = inventory @@
        (req[c].productId :> [exists |-> TRUE, quantityInBaseUom |-> 0,
                              reservedQuantity |-> 0])
  /\ Finish(c)
  /\ UNCHANGED <<products, orders, statusHistory, issued, ghostVars, outVars>>

\* prisma.inventory.create rejects (the connection is lost, the statement
\* times out): the handler ends with the exception, the product row stays
InventoryCreateFails(c) ==
  /\ UNCHANGED svcVars
  /\ pc[c] = "inventoryCreate"
  /\ lastError' = Failed("createProduct", "InventoryCreateFailed", "", "")
  /\ Finish(c)
  /\ UNCHANGED <<dbVars, issued, ghostVars, events, returned>>

ProductRequests ==
  \E c \in Calls :
    \/ \E supplierId \in {10, 11}, dto \in CreateProductDtos :
         createProduct(c, supplierId, dto)
    \/ ProductCreate(c)
    \/ InventoryCreate(c)
    \/ InventoryCreateFails(c)

\* the catalogue of the start, every product with its inventory row
InitProducts ==
  /\ products = [p \in ProductIds |-> StartProducts[p] @@ [sku |-> NULL]]
  /\ inventory = StartInventory
  /\ StartIdle
  /\ returned = NoReturn
  /\ issued = Budget(0, 0)
  /\ lastError = NoError

SpecProducts == InitProducts /\ [][ProductRequests]_vars

\* the creation of orders with the products' soft deletion
NextCatalog == OrderRequests \/ RemoveRequests

SpecCatalog == InitErr /\ [][NextCatalog]_vars

\* ---------------------------------------------------------- common services
omsVars == <<dbVars, callVars, ghostVars, outVars>>
circuitVars == <<circuits, inFlight, breaker>>
limiterVars == <<store, limited>>
shutdownVars == <<shutdownTasks, isShuttingDown, shutdownRun>>

\* the orders application at rest, for the specifications of the services
OmsIdle ==
  /\ products = StartProducts
  /\ inventory = StartInventory
  /\ StartRequests
  /\ returned = NoReturn
  /\ issued = Budget(0, 0)
  /\ lastError = NoError

\* Date.now() read by the services; time passes between any two steps
MaxTime == 4

Tick ==
  /\ now < MaxTime
  /\ now' = now + 1
  /\ UNCHANGED <<omsVars, circuitVars, limiterVars, shutdownVars>>

\* ----------------------------------------------------- CircuitBreakerService
CLOSED == "CLOSED"
OPEN == "OPEN"
HALF_OPEN == "HALF_OPEN"

MaxCalls == 4
CircuitNames == { "database" }

\* the configs callers pass, in clock ticks; slowCallRateThreshold 0.5 is
\* kept as the fraction num/den
CircuitConfigs ==
  { [failureThreshold |-> 2, timeoutMs |-> 2, slowCallDurationThreshold |-> 1,
     slowCallRateThreshold |-> [num |-> 1, den |-> 2]] }

NewCircuit ==
  [failures |-> 0, successes |-> 0, timeouts |-> 0, slowCalls |-> 0,
   lastFailureTime |-> 0, state |-> CLOSED]

\* the map after getOrCreateCircuit(name)
getOrCreateCircuit(name) ==
  IF name \in DOMAIN circuits THEN circuits ELSE (name :> NewCircuit) @@ circuits

\* slowCallRate = slowCalls / totalCalls is compared with the config's
\* threshold and with 0.8 = 8/10, by cross-multiplication
checkSlowCallRate(metrics, config) ==
  LET totalCalls == metrics.successes + metrics.failures
  IN  IF /\ totalCalls > 10
         /\ metrics.slowCalls * config.slowCallRateThreshold.den
              > config.slowCallRateThreshold.num * totalCalls
         /\ metrics.slowCalls * 10 > 8 * totalCalls
      THEN [metrics EXCEPT !.state = OPEN, !.lastFailureTime = now]
      ELSE metrics

slowCall(metrics, duration, config) ==
  IF duration > config.slowCallDurationThreshold
  THEN [metrics EXCEPT !.slowCalls = @ + 1]
  ELSE metrics

recordSuccess(metrics, duration, config) ==
  LET counted == slowCall([metrics EXCEPT !.successes = @ + 1], duration, config)
      closed == IF counted.state = HALF_OPEN
                THEN [counted EXCEPT !.state = CLOSED, !.failures = 0]
                ELSE counted
  IN  checkSlowCallRate(closed, config)

recordFailure(metrics, duration, config) ==
  LET counted == slowCall([metrics EXCEPT !.failures = @ + 1,
                                          !.lastFailureTime = now],
                          duration, config)
      opened == IF counted.failures >= config.failureThreshold
                   \/ counted.state = HALF_OPEN
                THEN [counted EXCEPT !.state = OPEN]
                ELSE counted
  IN  checkSlowCallRate(opened, config)

\* the circuit is OPEN and its timeout has not elapsed
BlockedOneTickLess(metrics, config) ==
  /\ metrics.state = OPEN
  /\ now - metrics.lastFailureTime + 1 < config.timeoutMs
Blocked(metrics, config) ==
  /\ metrics.state = OPEN
  /\ now - metrics.lastFailureTime < config.timeoutMs

\* executeWithCircuitBreaker up to its await: the call is refused, or the
\* operation is invoked (an OPEN circuit past its timeout turns HALF_OPEN)
executeWithCircuitBreaker(c, name, config) ==
  /\ inFlight[c] = NoOperation
  /\ \A d \in Calls : d < c => inFlight[d] # NoOperation
  /\ breaker.calls < MaxCalls
  /\ LET created == getOrCreateCircuit(name)
         metrics == created[name]
     IN  IF Blocked(metrics, config)
         THEN /\ circuits' = created
              /\ breaker' = [breaker EXCEPT !.calls = @ + 1, !.rejected = @ + 1]
              /\ UNCHANGED inFlight
         ELSE /\ circuits' = [created EXCEPT ![name].state =
                                IF @ = OPEN THEN HALF_OPEN ELSE @]
              /\ inFlight' = [inFlight EXCEPT ![c] =
                                [name |-> name, config |-> config,
                                 startTime |-> now,
                                 trial |-> metrics.state = OPEN]]
              /\ breaker' = [breaker EXCEPT !.calls = @ + 1, !.invoked = @ + 1]
  /\ UNCHANGED <<omsVars, now, limiterVars, shutdownVars>>

\* the awaited operation resolves: recordSuccess, the result is returned
OperationResolves(c) ==
  /\ inFlight[c] # NoOperation
  /\ circuits' = [circuits EXCEPT ![inFlight[c].name] =
                    recordSuccess(@, now - inFlight[c].startTime,
                                  inFlight[c].config)]
  /\ inFlight' = [inFlight EXCEPT ![c] = NoOperation]
  /\ UNCHANGED <<omsVars, now, breaker, limiterVars, shutdownVars>>

\* the awaited operation rejects: recordFailure, the error is rethrown
OperationRejects(c) ==
  /\ inFlight[c] # NoOperation
  /\ circuits' = [circuits EXCEPT ![inFlight[c].name] =
                    recordFailure(@, now - inFlight[c].startTime,
                                  inFlight[c].config)]
  /\ inFlight' = [inFlight EXCEPT ![c] = NoOperation]
  /\ UNCHANGED <<omsVars, now, breaker, limiterVars, shutdownVars>>

CircuitRequests ==
  \E c \in Calls :
    \/ \E name \in CircuitNames, config \in CircuitConfigs :
         executeWithCircuitBreaker(c, name, config)
    \/ OperationResolves(c)
    \/ OperationRejects(c)

\* a circuit that has served ten slow, successful calls
SlowCircuit == [NewCircuit EXCEPT !.successes = 10, !.slowCalls = 10]

InitCircuit ==
  /\ OmsIdle
  /\ now = 0
  /\ circuits \in { EmptyMap, [n \in CircuitNames |-> SlowCircuit] }
  /\ inFlight = [c \in Calls |-> NoOperation]
  /\ breaker = NoCalls
  /\ LimiterIdle
  /\ ShutdownIdle

NextCircuit == CircuitRequests \/ Tick

SpecCircuit == InitCircuit /\ [][NextCircuit]_vars

\* -------------------------------------------------------- RateLimiterService
MaxChecks == 4
Identifiers == { "user:1:api", "ip:unknown:api" }

\* the options of the guarded handler, windowMs in clock ticks
RateLimitConfigs == { [windowMs |-> 2, maxRequests |-> m] : m \in 0..2 }

\* Math.ceil(ms / 1000)
CeilSeconds(ms) == (ms + 999) \div 1000

\* the window of identifier is over, or it never had one
WindowExpired(identifier) ==
  \/ identifier \notin DOMAIN store
  \/ now >= store[identifier].resetTime

\* the record checkRateLimit leaves in the store
RecordAfter(identifier, config) ==
  IF WindowExpired(identifier)
  THEN [count |-> 1, resetTime |-> now + config.windowMs, firstRequest |-> now]
  ELSE IF store[identifier].count >= config.maxRequests
  THEN store[identifier]
  ELSE [store[identifier] EXCEPT !.count = @ + 1]

\* the object checkRateLimit returns
AnswerOf(identifier, config) ==
  LET record == RecordAfter(identifier, config)
  IN  IF WindowExpired(identifier)
      THEN [allowed |-> TRUE, limit |-> config.maxRequests,
            remaining |-> config.maxRequests - 1,
            resetTime |-> record.resetTime]
      ELSE IF store[identifier].count >= config.maxRequests
      THEN [allowed |-> FALSE, limit |-> config.maxRequests, remaining |-> 0,
            resetTime |-> record.resetTime,
            retryAfter |-> CeilSeconds(record.resetTime - now)]
      ELSE [allowed |-> TRUE, limit |-> config.maxRequests,
            remaining |-> config.maxRequests - record.count,
            resetTime |-> record.resetTime]

\* calls answered allowed in the window of identifier, this call included
AllowedAfter(identifier, answer) ==
  IF WindowExpired(identifier) THEN 1
  ELSE limited.allowedInWindow[identifier] + (IF answer.allowed THEN 1 ELSE 0)

checkRateLimit(identifier) ==
  /\ limited.calls < MaxChecks
  /\ LET config == limited.config
         answer == AnswerOf(identifier, config)
     IN  /\ store' = (identifier :> RecordAfter(identifier, config)) @@ store
         /\ limited' = [limited EXCEPT
                          !.calls = @ + 1,
                          !.answer = answer @@ [identifier |-> identifier],
                          !.allowedInWindow =
                             (identifier :> AllowedAfter(identifier, answer)) @@ @]
  /\ UNCHANGED <<omsVars, now, circuitVars, shutdownVars>>

\* the interval timer's cleanup: expired records are deleted
cleanup ==
  /\ store' = [k \in { i \in DOMAIN store : now < store[i].resetTime } |->
                 store[k]]
  /\ UNCHANGED <<omsVars, now, circuitVars, limited, shutdownVars>>

LimiterRequests ==
  \/ \E identifier \in Identifiers : checkRateLimit(identifier)
  \/ cleanup

InitLimiter ==
  /\ OmsIdle
  /\ now = 0
  /\ CircuitsIdle
  /\ store = EmptyMap
  /\ limited \in { [NoLimits EXCEPT !.config = config] :
                     config \in RateLimitConfigs }
  /\ ShutdownIdle

NextLimiter == LimiterRequests \/ Tick

SpecLimiter == InitLimiter /\ [][NextLimiter]_vars

\* -------------------------------------------------- GracefulShutdownService
MaxSignals == 2

\* push, then sort by priority, highest first (Array.prototype.sort is
\* stable: the new task goes behind the tasks of its own priority)
registerShutdownTask(tasks, name, priority) ==
  LET ahead == Cardinality({ k \in 1..Len(tasks) : tasks[k].priority >= priority })
  IN  SubSeq(tasks, 1, ahead) \o << [name |-> name, priority |-> priority] >>
        \o SubSeq(tasks, ahead + 1, Len(tasks))

registerDefaultTasks ==
  registerShutdownTask(
    registerShutdownTask(
      registerShutdownTask(<<>>, "database-cleanup", 100),
      "pending-transactions", 90),
    "shutdown-metrics", 10)

\* the task lists at the first signal: the default tasks, and the default
\* tasks with one more task registered by another provider
RegisteredTasks ==
  { registerDefaultTasks }
    \cup { registerShutdownTask(registerDefaultTasks, "cache-flush", priority) :
             priority \in { 0, 100 } }

\* executeShutdownTask up to its await: the task is invoked, racing its timer
executeShutdownTask(run, k) ==
  [run EXCEPT !.pc = "awaiting", !.i = k,
              !.started = Append(@, shutdownTasks[k].name)]

\* the for..of loop of onApplicationShutdown after task run.i has settled:
\* the next task is started, or the loop is over, the promise resolves and
\* the signal handler's then-callback calls process.exit(0)
Continue(run) ==
  IF run.i < Len(shutdownTasks)
  THEN executeShutdownTask(run, run.i + 1)
  ELSE [run EXCEPT !.pc = "exited", !.completed = TRUE]

\* a signal handler calls onApplicationShutdown: the first call sets
\* isShuttingDown and starts the first task; a later call returns at once,
\* its promise is resolved and its then-callback calls process.exit(0)
onApplicationShutdown ==
  /\ shutdownRun.pc # "exited"
  /\ shutdownRun.signals < MaxSignals
  /\ IF isShuttingDown
     THEN /\ shutdownRun' = [shutdownRun EXCEPT !.signals = @ + 1,
                                                !.pc = "exited"]
          /\ UNCHANGED isShuttingDown
     ELSE /\ isShuttingDown' = TRUE
          /\ shutdownRun' =
               Continue([shutdownRun EXCEPT !.signals = @ + 1])
  /\ UNCHANGED <<omsVars, now, circuitVars, limiterVars, shutdownTasks>>

\* the awaited task settles, or its timer fires first; a rejection is caught
\* and logged in executeShutdownTask, and the loop goes on
Settled(outcome) ==
  Continue([shutdownRun EXCEPT
              !.outcomes = (shutdownTasks[shutdownRun.i].name :> outcome) @@ @])

TaskResolves ==
  /\ shutdownRun.pc = "awaiting"
  /\ shutdownRun' = Settled("resolved")
  /\ UNCHANGED <<omsVars, now, circuitVars, limiterVars, shutdownTasks,
                 isShuttingDown>>

TaskThrows ==
  /\ shutdownRun.pc = "awaiting"
  /\ shutdownRun' = Settled("threw")
  /\ UNCHANGED <<omsVars, now, circuitVars, limiterVars, shutdownTasks,
                 isShuttingDown>>

TaskTimesOut ==
  /\ shutdownRun.pc = "awaiting"
  /\ shutdownRun' = Settled("timedOut")
  /\ UNCHANGED <<omsVars, now, circuitVars, limiterVars, shutdownTasks,
                 isShuttingDown>>

TaskSettles == TaskResolves \/ TaskThrows \/ TaskTimesOut

InitShutdown ==
  /\ OmsIdle
  /\ now = 0
  /\ CircuitsIdle
  /\ LimiterIdle
  /\ shutdownTasks \in RegisteredTasks
  /\ isShuttingDown = FALSE
  /\ shutdownRun = NoShutdown

NextShutdown == onApplicationShutdown \/ TaskSettles

SpecShutdown == InitShutdown /\ [][NextShutdown]_vars

\* every task settles or its setTimeout fires: the timers always run
SpecShutdownFair == SpecShutdown /\ WF_vars(TaskSettles)

TypeOK ==
  /\ \A p \in ProductIds : inventory[p].quantityInBaseUom \in Int
  /\ Len(orders) <= MaxOrders
  /\ Len(statusHistory) = Len(orders)
  /\ \A c \in Calls : pc[c] \in {"idle", "count", "createTx", "txOrderUpdate",
                                 "deductFind", "deductUpdate", "restore", "commit",
                                 "stockUpdate"}


\* ------------------------------------------------------------------ claims
Quiescent == \A c \in Calls : pc[c] = "idle"

\* C1: transition calls on one order are serialized, so of two concurrent
\* PENDING->APPROVED calls on an order exactly one commits and the order's
\* items are deducted once.
C1_ApprovedOnce == \A o \in OrderIds : approvals[o] <= 1

\* the orders that ask for all of product p's initial stock
AsksAllOf(o, p) ==
  \E k \in 1..Len(orders[o].items) :
     /\ orders[o].items[k].productId = p
     /\ orders[o].items[k].quantityInBaseUom = InitialStock(p)

\* C2: of the PENDING orders that each ask for the last available stock of
\* one product, at most one is approved (none of them having been cancelled
\* after approval), whatever the interleaving of the approval calls.
C2_LastUnitApprovedOnce ==
  \A p \in ProductIds : \A o1, o2 \in DOMAIN orders :
     (/\ o1 # o2
      /\ AsksAllOf(o1, p) /\ AsksAllOf(o2, p)
      /\ restores[o1] = 0 /\ restores[o2] = 0)
     => ~(approvals[o1] > 0 /\ approvals[o2] > 0)

\* C3: after any sequence of approvals and cancellations every inventory
\* row has quantityInBaseUom >= 0 and reservedQuantity <= quantityInBaseUom.
C3_LedgerInvariant ==
  \A p \in ProductIds :
     /\ inventory[p].quantityInBaseUom >= 0
     /\ inventory[p].reservedQuantity <= inventory[p].quantityInBaseUom

\* C4: an approval that fails on the stock of any item leaves the committed
\* tables as they were: no item's stock deducted (the items before the
\* failing one included), the order's status unchanged, no history row added.
C4_ApprovalAllOrNothing ==
  [][\A c \in Calls :
       (pc[c] = "deductFind" /\ pc'[c] = "idle")
       => /\ inventory' = inventory
          /\ orders' = orders
          /\ statusHistory' = statusHistory
          /\ approvals' = approvals]_vars

\* an approval was rolled back after the stock of an earlier item of the
\* order had been deducted inside its transaction
C4_Witness == \E o \in OrderIds : partialAbort[o]

\* C5: the stored status of an order changes only along the four legal
\* edges of the transition table.
C5_LegalEdgesOnly ==
  [][\A o \in DOMAIN orders :
       orders'[o].status # orders[o].status
       => orders'[o].status \in validTransitions[orders[o].status]]_vars

\* C6: once the stored status of an order is FULFILLED or CANCELLED it
\* never changes again.
C6_TerminalImmutable ==
  [][\A o \in DOMAIN orders :
       orders[o].status \in {FULFILLED, CANCELLED}
       => orders'[o].status = orders[o].status]_vars

\* C7: the status history of every order is a connected chain that starts
\* with null -> PENDING; every later row's fromStatus is the toStatus of the
\* row before it.
C7_HistoryChain ==
  \A o \in DOMAIN statusHistory :
     LET h == statusHistory[o]
     IN  /\ h[1] = [fromStatus |-> NULL, toStatus |-> PENDING]
         /\ \A k \in 2..Len(h) : h[k].fromStatus = h[k - 1].toStatus

\* C8: approving an order and then cancelling it, with no other stock
\* operation on its products in between, leaves the quantityInBaseUom of
\* every product of the order at its value before the approval.
C8_RoundTrip ==
  \A o \in DOMAIN orders :
     trip[o].phase = "closed"
     => \A p \in ItemProducts(o) : trip[o].after[p] = trip[o].before[p]

\* an order was approved and then cancelled with nothing in between
C8_Witness ==
  \E o \in DOMAIN orders :
     /\ trip[o].phase = "closed"
     /\ orders[o].status = CANCELLED
     /\ approvals[o] = 1 /\ restores[o] = 1

\* C9: the stock of an order is restored at most once and only after it was
\* deducted by an approval, so an order is never restored more often than
\* it was deducted.
C9_RestoreOnlyReverses ==
  \A o \in OrderIds : restores[o] <= 1 /\ restores[o] <= approvals[o]

\* what one ledger operation does when nothing runs beside it
SeqStep(op, qty, reserved) ==
  CASE op.kind = "deduct" ->
         IF qty - reserved < op.qty
         THEN [qty |-> qty, ok |-> FALSE]
         ELSE [qty |-> qty - op.qty, ok |-> TRUE]
    [] op.kind = "restore" -> [qty |-> qty + op.qty, ok |-> TRUE]
    [] op.kind = "adjust" ->
         [qty |-> qty + op.qty, ok |-> ~(qty + op.qty < 0)]

\* some order of the operations in the bag, run one after the other from
\* qty, gives every operation its logged result and ends with final
RECURSIVE Sequential(_, _, _, _)
Sequential(ops, qty, reserved, final) ==
  IF BagToSet(ops) = {} THEN qty = final
  ELSE \E op \in BagToSet(ops) :
         LET r == SeqStep(op, qty, reserved)
         IN  /\ r.ok = op.ok
             /\ Sequential(ops (-) SetToBag({op}), r.qty, reserved, final)

\* C10: the operations on one product's inventory are linearizable: when no
\* request is in flight, the stored quantity and the results of the
\* completed deductions, restorations and adjustments are those of some
\* sequential order of these operations.
C10_LedgerLinearizable ==
  Quiescent =>
    \A p \in ProductIds :
       Sequential(ledgerLog[p], InitialStock(p), inventory[p].reservedQuantity,
                  inventory[p].quantityInBaseUom)


\* C11: updateStock rejects a change that would make quantityInBaseUom
\* negative, and the rejected change leaves the stored quantity as it was.
C11_RejectedAdjustmentUnchanged ==
  [][\A c \in Calls :
       (/\ StockUpdate(c)
        /\ inventory[req[c].orderId].quantityInBaseUom + req[c].totalAmount < 0)
       => inventory' = inventory]_vars


\* C12: order numbers never collide: no createOrder execution holds an
\* order number that another execution holds or that a persisted order has
\* (so none can fail on a duplicate number).
C12_OrderNumbersDistinct ==
  \A c \in Calls :
     pc[c] = "createTx"
     => /\ \A d \in Calls \ {c} :
             pc[d] = "createTx" => req[d].orderNumber # req[c].orderNumber
        /\ \A o \in DOMAIN orders : orders[o].orderNumber # req[c].orderNumber

\* C13: the order, its items and its initial history entry are persisted
\* together: every stored order has at least one item and a history that
\* starts with null -> PENDING, there is no history without its order, and a
\* creating transaction that fails stores none of the three.
InitialEntry == [fromStatus |-> NULL, toStatus |-> PENDING]
C13_CreateAtomic ==
  /\ [](/\ Len(statusHistory) = Len(orders)
        /\ \A o \in DOMAIN orders :
             /\ Len(orders[o].items) >= 1
             /\ Len(statusHistory[o]) >= 1
             /\ statusHistory[o][1] = InitialEntry)
  /\ [][\A c \in Calls :
          CreateTx(c)
          => \/ /\ Len(orders') = Len(orders) + 1
                /\ orders'[Len(orders')].status = PENDING
                /\ orders'[Len(orders')].items = req[c].items
                /\ statusHistory'[Len(orders')] = <<InitialEntry>>
             \/ UNCHANGED <<orders, statusHistory>>]_vars

C13_Witness ==
  \E o \in DOMAIN orders :
     /\ Len(orders[o].items) = 2
     /\ statusHistory[o] = <<InitialEntry>>
     /\ Quiescent

\* C14: no step of createOrder, successful or failed, changes a product's
\* quantityInBaseUom or reservedQuantity.
C14_CreateLeavesInventory ==
  [][(\E c \in Calls :
        \/ \E items \in ItemLists : createOrder(c, items)
        \/ CreateCount(c)
        \/ CreateTx(c))
     => inventory' = inventory]_vars

\* two PENDING orders that each ask for the whole stock of product 1
C14_Witness ==
  /\ Len(orders) = 2
  /\ \A o \in DOMAIN orders :
       /\ orders[o].status = PENDING
       /\ AsksAllOf(o, 1)
  /\ inventory[1].quantityInBaseUom = InitialStock(1)
  /\ inventory[1].reservedQuantity = 0
  /\ Quiescent

\* C15: a committing transition that the call took as PENDING -> CANCELLED
\* or as APPROVED -> FULFILLED, or that changes the stored status in one of
\* these two ways, leaves every inventory record unchanged; a committing
\* transition that changes inventory is PENDING -> APPROVED, which only
\* decrements, or APPROVED -> CANCELLED, which only increments; and no other
\* step of a transition call writes inventory.
NoStockEdges == { <<PENDING, CANCELLED>>, <<APPROVED, FULFILLED>> }
C15_StockOnlyOnApproveAndCancel ==
  [][/\ \A c \in Calls :
          Commit(c)
          => LET held == <<req[c].currentStatus, req[c].newStatus>>
                 done == <<orders[req[c].orderId].status, req[c].newStatus>>
             IN  /\ (held \in NoStockEdges \/ done \in NoStockEdges)
                    => inventory' = inventory
                 /\ inventory' # inventory
                    => \/ /\ held = <<PENDING, APPROVED>>
                          /\ \A p \in ProductIds :
                               inventory'[p].quantityInBaseUom
                                 <= inventory[p].quantityInBaseUom
                       \/ /\ held = <<APPROVED, CANCELLED>>
                          /\ \A p \in ProductIds :
                               inventory'[p].quantityInBaseUom
                                 >= inventory[p].quantityInBaseUom
     /\ (TransitionRequests /\ inventory' # inventory)
        => \E c \in Calls : Commit(c)]_vars

\* one order was approved and fulfilled, the other cancelled while PENDING
C15_Witness ==
  /\ \E o \in DOMAIN orders :
       statusHistory[o] = << InitialEntry,
                             [fromStatus |-> PENDING, toStatus |-> APPROVED],
                             [fromStatus |-> APPROVED, toStatus |-> FULFILLED] >>
  /\ \E o \in DOMAIN orders :
       statusHistory[o] = << InitialEntry,
                             [fromStatus |-> PENDING, toStatus |-> CANCELLED] >>
  /\ Quiescent

\* C18: the history of an order has one entry for its creation and one for
\* every transition that succeeded on it, and no step of a transition call
\* other than its commit adds an entry.
C18_OneEntryPerChange ==
  /\ [](\A o \in DOMAIN orders :
          Len(statusHistory[o]) = 1 + Len(events[o]))
  /\ [][(TransitionRequests /\ ~(\E c \in Calls : Commit(c)))
        => statusHistory' = statusHistory]_vars

C18_Witness ==
  \E o \in DOMAIN orders :
     /\ Len(statusHistory[o]) = 3
     /\ Len(events[o]) = 2
     /\ issued.transition = MaxTransitions
     /\ Quiescent

\* C16: a transition call whose requested status is not a legal successor
\* of the order's status fails with InvalidTransition and has no effect: the
\* order's status, its history, all inventory and the emitted events are
\* unchanged and the call is over; and every step that reports
\* InvalidTransition is such a step.
LegalEdges == { <<PENDING, APPROVED>>, <<PENDING, CANCELLED>>,
                <<APPROVED, FULFILLED>>, <<APPROVED, CANCELLED>> }
NoEffect ==
  /\ UNCHANGED <<products, inventory, orders, statusHistory, events>>
  /\ UNCHANGED <<pc, req, tx>>
C16_InvalidTransitionNoEffect ==
  [][/\ \A c \in Calls, o \in DOMAIN orders, s \in OrderStatus :
          (updateOrderStatus(c, o, s) /\ <<orders[o].status, s>> \notin LegalEdges)
          => /\ lastError'.error = "InvalidTransition"
             /\ lastError'.from = orders[o].status
             /\ lastError'.to = s
             /\ NoEffect
     /\ (lastError' # lastError /\ lastError'.error = "InvalidTransition")
        => NoEffect]_vars

\* a request on an order that is FULFILLED was refused
C16_Witness ==
  /\ \E o \in DOMAIN orders :
       /\ orders[o].status = FULFILLED
       /\ Len(statusHistory[o]) = 3
       /\ Len(events[o]) = 2
  /\ lastError.error = "InvalidTransition"
  /\ lastError.from = FULFILLED
  /\ lastError.to \in {PENDING, APPROVED, CANCELLED}
  /\ Quiescent

\* C17: on an order whose status is FULFILLED or CANCELLED, every call that
\* requests that same status fails with InvalidTransition and changes no
\* stock, adds no history entry and emits no event, however often repeated.
TerminalStatuses == {FULFILLED, CANCELLED}
C17_TerminalRepeatRejected ==
  [][\A c \in Calls, o \in DOMAIN orders :
       (/\ orders[o].status \in TerminalStatuses
        /\ updateOrderStatus(c, o, orders[o].status))
       => /\ lastError' = [op |-> "transition", error |-> "InvalidTransition",
                           from |-> orders[o].status, to |-> orders[o].status]
          /\ inventory' = inventory
          /\ statusHistory' = statusHistory
          /\ events' = events
          /\ orders' = orders
          /\ pc' = pc]_vars

\* the CANCELLED order was asked to be CANCELLED twice more
C17_Witness ==
  /\ \E o \in DOMAIN orders :
       /\ orders[o].status = CANCELLED
       /\ Len(statusHistory[o]) = 2
       /\ Len(events[o]) = 1
  /\ lastError = [op |-> "transition", error |-> "InvalidTransition",
                  from |-> CANCELLED, to |-> CANCELLED]
  /\ issued.transition = 3
  /\ Quiescent

\* C19: a createOrder request with an item whose quantity in the product's
\* base unit exceeds the product's available stock (quantityInBaseUom minus
\* reservedQuantity, 0 without an inventory record) fails and persists no
\* order, item or history; the failure is InsufficientStock when all the
\* products of the request are found active.
Available(p) ==
  IF inventory[p].exists
  THEN inventory[p].quantityInBaseUom - inventory[p].reservedQuantity
  ELSE 0
Known(item) == item.productId \in ProductIds
Exceeds(item) ==
  /\ Known(item)
  /\ isCompatible(item.requestedUom, products[item.productId].baseUom)
  /\ convertToBaseUom(item.quantityRequested, item.requestedUom,
                      products[item.productId].baseUom) > Available(item.productId)
C19_InsufficientStockRejected ==
  [][\A c \in Calls, items \in ItemLists :
       (/\ createOrder(c, items)
        /\ \E k \in 1..Len(items) : Exceeds(items[k]))
       => /\ UNCHANGED <<orders, statusHistory, inventory, pc, req, tx>>
          /\ lastError'.op = "create"
          /\ (\A k \in 1..Len(items) :
                Known(items[k]) /\ products[items[k].productId].isActive)
             => lastError'.error = "InsufficientStock"]_vars

\* the approved order took the whole stock of product 1 and the next
\* request for product 1 was refused
C19_Witness ==
  /\ lastError = [op |-> "create", error |-> "InsufficientStock",
                  from |-> "", to |-> ""]
  /\ inventory[1].exists
  /\ Available(1) = 0
  /\ Len(orders) = 1
  /\ Len(statusHistory) = 1
  /\ orders[1].status = APPROVED
  /\ Quiescent

\* C20: a createOrder request that names a product which does not exist or
\* has been soft-deleted fails and persists nothing.
C20_UnknownOrInactiveRejected ==
  [][\A c \in Calls, items \in ItemLists :
       (/\ createOrder(c, items)
        /\ \E k \in 1..Len(items) :
             \/ ~Known(items[k])
             \/ ~products[items[k].productId].isActive)
       => /\ UNCHANGED <<orders, statusHistory, inventory, pc, req, tx>>
          /\ lastError' = [op |-> "create", error |-> "ProductNotFoundOrInactive",
                           from |-> "", to |-> ""]]_vars

\* product 1 was ordered, then soft-deleted, and the next request naming a
\* removed product was refused
C20_Witness ==
  /\ lastError = [op |-> "create", error |-> "ProductNotFoundOrInactive",
                  from |-> "", to |-> ""]
  /\ ~products[1].isActive
  /\ products[2].isActive
  /\ Len(orders) = 1
  /\ Len(statusHistory) = 1
  /\ AsksAllOf(1, 1)
  /\ Quiescent

\* C23: an edit of a product (update of its price or active flag, remove)
\* leaves every order, with its items' quantityInBaseUom, unitPriceInBaseUom
\* and lineTotal and its totalAmount, unchanged; and the commit of an
\* approval or of a cancellation after approval changes every product's
\* stock by exactly the quantityInBaseUom stored in the order's items.
RECURSIVE StoredQuantity(_, _)
StoredQuantity(items, p) ==
  IF items = <<>> THEN 0
  ELSE (IF Head(items).productId = p THEN Head(items).quantityInBaseUom ELSE 0)
       + StoredQuantity(Tail(items), p)
C23_ItemsFrozen ==
  [][/\ (RemoveRequests \/ UpdateRequests) => orders' = orders
     /\ \A c \in Calls :
          Commit(c)
          => LET o == req[c].orderId
                 held == <<req[c].currentStatus, req[c].newStatus>>
             IN  /\ \A x \in DOMAIN orders :
                       /\ orders'[x].items = orders[x].items
                       /\ orders'[x].totalAmount = orders[x].totalAmount
                 /\ held = <<PENDING, APPROVED>>
                    => \A p \in ProductIds :
                         inventory'[p].quantityInBaseUom
                           = inventory[p].quantityInBaseUom
                             - StoredQuantity(orders[o].items, p)
                 /\ held = <<APPROVED, CANCELLED>>
                    => \A p \in ProductIds :
                         inventory'[p].quantityInBaseUom
                           = inventory[p].quantityInBaseUom
                             + StoredQuantity(orders[o].items, p)]_vars

\* the price of an ordered product was edited, and the order was approved
\* and then cancelled: the item keeps the price of its creation and the stock
\* is back at its initial value
C23_Witness ==
  \E o \in DOMAIN orders :
     /\ orders[o].status = CANCELLED
     /\ Len(events[o]) = 2
     /\ events[o][1].newStatus = APPROVED
     /\ \E k \in DOMAIN orders[o].items :
          LET item == orders[o].items[k]
          IN  /\ item.unitPriceInBaseUom # products[item.productId].pricePerBaseUom
              /\ item.lineTotal = item.quantityInBaseUom * item.unitPriceInBaseUom
              /\ inventory[item.productId].quantityInBaseUom
                   = InitialStock(item.productId)
     /\ Quiescent

\* C24: order numbers increase: the sequence number a creation draws is
\* strictly greater than the number of every order stored when it draws it
\* (so greater than that of every creation completed before it started), and
\* the creating transaction stores the order under the number drawn.
C24_OrderNumbersIncrease ==
  [][\A c \in Calls :
       /\ CreateCount(c)
          => \A o \in DOMAIN orders :
                req'[c].orderNumber > orders[o].orderNumber
       /\ (CreateTx(c) /\ Len(orders') > Len(orders))
          => orders'[Len(orders')].orderNumber = req[c].orderNumber]_vars
C24_Witness ==
  /\ Len(orders) = 2
  /\ orders[1].orderNumber = 1
  /\ orders[2].orderNumber = 2
  /\ orders[1].status # PENDING
  /\ Quiescent

\* C25: every successful transition emits exactly one status-changed event,
\* with the order's status before the transition as oldStatus, the new
\* status and the distinct suppliers of the order's items; no other step of
\* a transition call emits an event.
C25_EventPerTransition ==
  [][\A c \in Calls :
       /\ Commit(c)
          => LET o == req[c].orderId
             IN  /\ Len(events'[o]) = Len(events[o]) + 1
                 /\ events'[o][Len(events'[o])].oldStatus = orders[o].status
                 /\ events'[o][Len(events'[o])].newStatus = orders'[o].status
                 /\ events'[o][Len(events'[o])].supplierIds =
                       supplierIds(orders[o].items)
       /\ (TransitionRequests /\ ~(\E d \in Calls : Commit(d)))
          => events' = events]_vars

\* C26: checkStockAvailability is a pure read: it changes no table and no
\* call, and returns available = (quantityInBaseUom - reservedQuantity >=
\* required) with that available quantity, the total stock and the reserved
\* quantity; for a product without inventory row it returns available =
\* false with available quantity 0.
C26_CheckIsPureRead ==
  [][\A p \in ProductIds \cup {3}, q \in RequiredQuantities :
       checkStockAvailability(p, q)
       => /\ UNCHANGED <<products, inventory, orders, statusHistory, pc, req, tx>>
          /\ IF p \in ProductIds /\ inventory[p].exists
             THEN returned'.result =
                    [available |->
                       (inventory[p].quantityInBaseUom
                          - inventory[p].reservedQuantity >= q),
                     availableQuantity |->
                       inventory[p].quantityInBaseUom
                          - inventory[p].reservedQuantity,
                     totalStock |-> inventory[p].quantityInBaseUom,
                     reservedQuantity |-> inventory[p].reservedQuantity]
             ELSE /\ returned'.result.available = FALSE
                  /\ returned'.result.availableQuantity = 0]_vars
C26_Witness ==
  /\ returned.op = "checkStockAvailability"
  /\ returned.productId = 2
  /\ returned.requiredQuantityInBase = 3
  /\ returned.result.available
  /\ returned.result.availableQuantity = 3
  /\ inventory[2].quantityInBaseUom = 3

\* C30: a SUPPLIER's updateStock on another supplier's product is rejected
\* and writes nothing; an ADMIN's updateStock is never rejected for
\* ownership and, with a compatible unit, goes on to the inventory update;
\* a request with a unit incompatible with the product's base unit is
\* rejected and writes nothing; the update that follows an accepted request
\* writes the requested product's row only.
C30_StockAuthorised ==
  [][\A c \in Calls :
       /\ \A id \in ProductIds, dto \in StockDtos, actor \in Actors :
            updateStock(c, id, dto, actor)
            => /\ inventory' = inventory
               /\ (actor.role = "SUPPLIER" /\ products[id].supplierId # actor.id)
                  => (lastError'.error = "Forbidden" /\ pc'[c] = "idle")
               /\ (actor.role = "ADMIN" /\ isCompatible(dto.uom, products[id].baseUom))
                  => (lastError' = lastError /\ pc'[c] = "stockUpdate"
                      /\ req'[c].orderId = id)
               /\ (actor.role = "ADMIN" \/ products[id].supplierId = actor.id)
                  /\ ~isCompatible(dto.uom, products[id].baseUom)
                  => (lastError'.error = "UnitMismatch" /\ pc'[c] = "idle")
       /\ StockUpdate(c)
          => \A p \in ProductIds \ {req[c].orderId} : inventory'[p] = inventory[p]]_vars
C30_Witness ==
  /\ lastError.op = "adjust"
  /\ lastError.error = "Forbidden"
  /\ issued.adjust = MaxAdjust
  /\ \A p \in ProductIds :
       inventory[p].exists => inventory[p].quantityInBaseUom = InitialStock(p)
  /\ Quiescent

\* C27: isCompatible answers true exactly for the pairs the conversion
\* table has a rule for, and convertToBaseUom fails exactly for the pairs
\* for which isCompatible answers false, whatever the quantity (so it
\* fails for KILOGRAM to MILLILITER, LITER to GRAM and METER to PIECE).
InTable(requestedUom, baseUom) ==
  <<requestedUom, baseUom>> \in { <<r.from, r.to>> : r \in conversionRules }
C27_CompatibleIffRule ==
  /\ returned.op = "isCompatible"
     => returned.result = InTable(returned.requestedUom, returned.baseUom)
  /\ returned.op = "convertToBaseUom"
     => /\ (returned.result = NoRule)
           = ~isCompatible(returned.requestedUom, returned.baseUom)
        /\ <<returned.requestedUom, returned.baseUom>>
             \in { <<"KILOGRAM", "MILLILITER">>, <<"LITER", "GRAM">>,
                   <<"METER", "PIECE">> }
           => returned.result = NoRule
C27_Witness ==
  /\ returned.op = "convertToBaseUom"
  /\ returned.requestedUom = "KILOGRAM"
  /\ returned.baseUom = "MILLILITER"
  /\ returned.quantity = Dec(161, 1)
  /\ returned.result = NoRule

\* C28: for every quantity and every pair with a rule, convertToBaseUom
\* returns quantity x factor without drift: the Number it returns is the
\* one the exact decimal product denotes.
C28_ConversionExact ==
  (returned.op = "convertToBaseUom" /\ returned.result # NoRule)
  => LET rule == CHOOSE r \in conversionRules :
                    r.from = returned.requestedUom /\ r.to = returned.baseUom
     IN  returned.result = Nearest(DecMul(returned.quantity, factorDec(rule)))

\* C29: every supported unit has an identity rule: converting a quantity
\* from a unit to the same unit succeeds and returns the quantity unchanged.
C29_IdentityForEveryUnit ==
  (returned.op = "convertToBaseUom" /\ returned.requestedUom = returned.baseUom)
  => returned.result = Nearest(returned.quantity)

\* the exact decimal values of an item: quantity x factor, and that x price
ExactQuantity(item) ==
  DecMul(item.quantityRequested,
         factorDec(CHOOSE r \in conversionRules :
                     /\ r.from = item.requestedUom
                     /\ r.to = products[item.productId].baseUom))
ExactLineTotal(item) ==
  DecMul(ExactQuantity(item), products[item.productId].pricePerBaseUom)
RECURSIVE ExactTotal(_, _)
ExactTotal(items, k) ==
  IF k = 0 THEN Dec(0, 0)
  ELSE DecAdd(ExactTotal(items, k - 1), ExactLineTotal(items[k]))

\* C21: an order's totalAmount is the sum of the lineTotal of its items:
\* whenever every lineTotal computed is the Number its exact decimal value
\* denotes, the totalAmount computed is the Number the exact sum denotes.
C21_TotalIsSum ==
  (/\ returned.op = "create"
   /\ \A k \in 1..Len(returned.items) :
        returned.orderItems[k].lineTotal = Nearest(ExactLineTotal(returned.items[k])))
  => returned.totalAmount = Nearest(ExactTotal(returned.items, Len(returned.items)))

\* C22: every order item has quantityInBaseUom = quantityRequested x factor
\* and lineTotal = quantityInBaseUom x the product's pricePerBaseUom.
C22_ItemAmounts ==
  returned.op = "create"
  => \A k \in 1..Len(returned.items) :
       /\ returned.orderItems[k].quantityInBaseUom
            = Nearest(ExactQuantity(returned.items[k]))
       /\ returned.orderItems[k].lineTotal
            = Nearest(ExactLineTotal(returned.items[k]))

\* C31: every product has exactly one inventory record, created alongside
\* it with zero stock: whenever no request is in flight, every product row
\* has its inventory row, and the rows created with new products hold
\* quantityInBaseUom = 0 and reservedQuantity = 0.
C31_InventoryPerProduct ==
  Quiescent
  => \A p \in DOMAIN products :
        /\ p \in DOMAIN inventory
        /\ inventory[p].exists
        /\ p \notin ProductIds
           => (inventory[p].quantityInBaseUom = 0 /\ inventory[p].reservedQuantity = 0)

\* C32: stock conservation: for every product, quantityInBaseUom is the
\* initial stock plus the accepted stock adjustments minus the stored
\* quantities of its items in the orders that are APPROVED or FULFILLED.
RECURSIVE AcceptedSum(_, _)
AcceptedSum(log, entries) ==
  IF entries = {} THEN 0
  ELSE LET e == CHOOSE x \in entries : TRUE
       IN  (IF e.kind = "adjust" /\ e.ok THEN e.qty * CopiesIn(e, log) ELSE 0)
             + AcceptedSum(log, entries \ {e})
RECURSIVE HeldByOrders(_, _)
HeldByOrders(o, p) ==
  IF o = 0 THEN 0
  ELSE (IF orders[o].status \in {APPROVED, FULFILLED}
        THEN StoredQuantity(orders[o].items, p) ELSE 0)
         + HeldByOrders(o - 1, p)
C32_StockConserved ==
  \A p \in ProductIds :
     inventory[p].quantityInBaseUom
       = InitialStock(p) + AcceptedSum(ledgerLog[p], BagToSet(ledgerLog[p]))
           - HeldByOrders(Len(orders), p)

\* C33: createOrder is refused as 'product not found or inactive' only if
\* one of the products its items name is missing or inactive (so a request
\* naming one existing, active product in two items is not refused so).
C33_RefusedOnlyIfMissing ==
  [][\A c \in Calls, items \in ItemLists :
       (/\ createOrder(c, items)
        /\ lastError'.error = "ProductNotFoundOrInactive"
        /\ lastError' # lastError)
       => \E k \in 1..Len(items) :
             \/ items[k].productId \notin ProductIds
             \/ ~products[items[k].productId].isActive]_vars

\* a call admitted as a trial awaits its operation on circuit name
TrialInFlight(name) ==
  \E d \in Calls : /\ inFlight[d] # NoOperation
                   /\ inFlight[d].name = name
                   /\ inFlight[d].trial

\* C34: a call on a circuit that is OPEN with less than timeoutMs elapsed
\* since lastFailureTime is refused: the operation is not invoked, and the
\* circuit's state and counters are as they were.
C34_OpenRejects ==
  [][\A c \in Calls, name \in CircuitNames, config \in CircuitConfigs :
       (/\ name \in DOMAIN circuits
        /\ circuits[name].state = OPEN
        /\ now - circuits[name].lastFailureTime < config.timeoutMs
        /\ executeWithCircuitBreaker(c, name, config))
       => /\ circuits' = circuits
          /\ inFlight' = inFlight
          /\ breaker'.invoked = breaker.invoked
          /\ breaker'.rejected = breaker.rejected + 1]_vars
C34_Witness ==
  /\ breaker.rejected > 0
  /\ \E name \in DOMAIN circuits : circuits[name].state = OPEN

\* C35: a call on an OPEN circuit whose timeout has elapsed is admitted as a
\* trial and the circuit turns HALF_OPEN; when a trial resolves the circuit
\* is CLOSED with failures = 0, when it rejects the circuit is OPEN; a
\* failure that brings failures to failureThreshold on a CLOSED circuit
\* opens it.
C35_TrialAdmitted ==
  \A c \in Calls, name \in CircuitNames, config \in CircuitConfigs :
    (/\ name \in DOMAIN circuits
     /\ circuits[name].state = OPEN
     /\ now - circuits[name].lastFailureTime >= config.timeoutMs
     /\ executeWithCircuitBreaker(c, name, config))
    => /\ circuits'[name].state = HALF_OPEN
       /\ inFlight'[c] # NoOperation
       /\ inFlight'[c].trial
C35_TrialResolved ==
  \A c \in Calls :
    (/\ inFlight[c] # NoOperation
     /\ inFlight[c].trial
     /\ OperationResolves(c))
    => /\ circuits'[inFlight[c].name].state = CLOSED
       /\ circuits'[inFlight[c].name].failures = 0
C35_TrialRejected ==
  \A c \in Calls :
    (/\ inFlight[c] # NoOperation
     /\ inFlight[c].trial
     /\ OperationRejects(c))
    => circuits'[inFlight[c].name].state = OPEN
C35_ThresholdOpens ==
  \A c \in Calls :
    (/\ inFlight[c] # NoOperation
     /\ circuits[inFlight[c].name].state = CLOSED
     /\ circuits[inFlight[c].name].failures + 1 >= inFlight[c].config.failureThreshold
     /\ OperationRejects(c))
    => circuits'[inFlight[c].name].state = OPEN
C35_Recovery ==
  [][/\ C35_TrialAdmitted
     /\ C35_TrialResolved
     /\ C35_TrialRejected
     /\ C35_ThresholdOpens]_vars

\* C36: a call that arrives while the circuit is HALF_OPEN and a trial is in
\* flight is not passed to the wrapped operation.
C36_OneTrial ==
  [][\A c \in Calls, name \in CircuitNames, config \in CircuitConfigs :
       (/\ name \in DOMAIN circuits
        /\ circuits[name].state = HALF_OPEN
        /\ TrialInFlight(name)
        /\ executeWithCircuitBreaker(c, name, config))
       => /\ inFlight' = inFlight
          /\ breaker'.invoked = breaker.invoked]_vars

\* C37: in every window of every identifier the calls answered allowed
\* never number more than maxRequests, no answer reports a negative
\* remaining, and a call at or after resetTime starts a window with count 1.
C37_AllowedWithinLimit ==
  \A identifier \in DOMAIN limited.allowedInWindow :
     limited.allowedInWindow[identifier] <= limited.config.maxRequests
C37_RemainingNotNegative ==
  limited.answer # NoAnswer => limited.answer.remaining >= 0
C37_NewWindow ==
  \A identifier \in Identifiers :
    (/\ identifier \in DOMAIN store
     /\ now >= store[identifier].resetTime
     /\ checkRateLimit(identifier))
    => /\ store'[identifier].count = 1
       /\ store'[identifier].firstRequest = now
       /\ store'[identifier].resetTime = now + limited.config.windowMs
       /\ limited'.answer.allowed
C37_RateLimited ==
  /\ [](C37_AllowedWithinLimit /\ C37_RemainingNotNegative)
  /\ [][C37_NewWindow]_vars

\* C38: whatever signals arrive, no shutdown task is started twice, the
\* tasks are started in non-increasing priority order, a task that throws or
\* times out is followed by the next task, and once shutdown has begun it
\* completes: every registered task is started and the loop reaches its end.
TaskNames == { shutdownTasks[k].name : k \in 1..Len(shutdownTasks) }
PriorityOf(name) ==
  LET k == CHOOSE j \in 1..Len(shutdownTasks) : shutdownTasks[j].name = name
  IN  shutdownTasks[k].priority
C38_StartedOnce ==
  \A j, k \in 1..Len(shutdownRun.started) :
     j # k => shutdownRun.started[j] # shutdownRun.started[k]
C38_PriorityOrder ==
  \A j, k \in 1..Len(shutdownRun.started) :
     j < k => PriorityOf(shutdownRun.started[j])
                >= PriorityOf(shutdownRun.started[k])
C38_FailureGoesOn ==
  (/\ shutdownRun.pc = "awaiting"
   /\ shutdownRun.i < Len(shutdownTasks)
   /\ (TaskThrows \/ TaskTimesOut))
  => /\ shutdownRun'.pc = "awaiting"
     /\ shutdownRun'.started
          = Append(shutdownRun.started, shutdownTasks[shutdownRun.i + 1].name)
C38_Completes ==
  isShuttingDown
    ~> (/\ shutdownRun.completed
        /\ { shutdownRun.started[k] : k \in 1..Len(shutdownRun.started) }
             = TaskNames)
C38_GracefulShutdown ==
  /\ [](C38_StartedOnce /\ C38_PriorityOrder)
  /\ [][C38_FailureGoesOn]_vars
  /\ C38_Completes

====
